---- MODULE Spec2Model ----
(***************************************************************************)
(* Technical Referee: the comparison engine (option validation, scoring,   *)
(* priority weighting, contextual adjustment, ranking, trade-off analysis) *)
(* and the recommendation confidence and alternative scenarios of the      *)
(* output generator.                                                       *)
(*                                                                         *)
(* Numbers.  Criterion scores are integers for integer metadata.  Weights  *)
(* and weighted scores are rationals, kept exactly as records [n, d] in    *)
(* lowest terms with d > 0; the code's IEEE doubles are read as the real   *)
(* numbers they approximate.  Strings that the code transforms (option     *)
(* names, experience entries) are sequences of one-character strings, so   *)
(* toLowerCase, trim and includes are computed; strings that are only      *)
(* compared (categories, enumerations, metadata values) stay atomic;       *)
(* CategoryChars spells a category out where the code concatenates it.     *)
(* Metadata attributes hold values of the types core.ts and knowledge.ts   *)
(* declare for them: numbers, enumeration strings, lists of strings.       *)
(***************************************************************************)
EXTENDS Integers, Sequences, FiniteSets, TLC

VARIABLES options, constraints, result, output, call, ret,
          sessions, modificationHistory, partialConstraints, currentStep

vars == <<options, constraints, result, output, call, ret,
          sessions, modificationHistory, partialConstraints, currentStep>>

\* The state of the constraint update manager and of the collection interface
interactive == <<sessions, modificationHistory, partialConstraints, currentStep>>

\* Both as constructed: no session, no history, nothing collected, and the
\* collection at its first step
Constructed ==
    /\ sessions = << >>
    /\ modificationHistory = << >>
    /\ partialConstraints = << >>
    /\ currentStep = "budget"

-----------------------------------------------------------------------------
(* Strings *)

UpperChars == <<"A","B","C","D","E","F","G","H","I","J","K","L","M",
                "N","O","P","Q","R","S","T","U","V","W","X","Y","Z">>

LowerChars == <<"a","b","c","d","e","f","g","h","i","j","k","l","m",
                "n","o","p","q","r","s","t","u","v","w","x","y","z">>

LowerChar(c) ==
    IF \E i \in DOMAIN UpperChars : UpperChars[i] = c
    THEN LowerChars[CHOOSE i \in DOMAIN UpperChars : UpperChars[i] = c]
    ELSE c

\* String.prototype.toLowerCase
ToLowerCase(s) == [i \in DOMAIN s |-> LowerChar(s[i])]

\* String.prototype.includes
Includes(hay, needle) ==
    \E i \in 0..(Len(hay) - Len(needle)) :
        \A j \in 1..Len(needle) : hay[i + j] = needle[j]

RECURSIVE TrimStart(_)
TrimStart(s) == IF s # <<>> /\ Head(s) = " " THEN TrimStart(Tail(s)) ELSE s

RECURSIVE TrimEnd(_)
TrimEnd(s) ==
    IF s # <<>> /\ s[Len(s)] = " " THEN TrimEnd(SubSeq(s, 1, Len(s) - 1)) ELSE s

\* String.prototype.trim
Trim(s) == TrimEnd(TrimStart(s))

-----------------------------------------------------------------------------
(* Exact rational arithmetic *)

Abs(x) == IF x < 0 THEN -x ELSE x

RECURSIVE Gcd(_, _)
Gcd(a, b) == IF b = 0 THEN a ELSE Gcd(b, a % b)

Rat(n, d) ==
    LET g == Gcd(Abs(n), Abs(d))
        s == IF d < 0 THEN -1 ELSE 1
    IN  [n |-> s * (n \div g), d |-> s * (d \div g)]

RInt(i) == [n |-> i, d |-> 1]
RAdd(a, b) == Rat(a.n * b.d + b.n * a.d, a.d * b.d)
RSub(a, b) == Rat(a.n * b.d - b.n * a.d, a.d * b.d)
RMul(a, b) == Rat(a.n * b.n, a.d * b.d)
RDiv(a, b) == Rat(a.n * b.d, a.d * b.n)
RLt(a, b) == a.n * b.d < b.n * a.d
RLe(a, b) == a.n * b.d <= b.n * a.d
RGt(a, b) == RLt(b, a)
RGe(a, b) == RLe(b, a)
RMin(a, b) == IF RLe(a, b) THEN a ELSE b
RMax(a, b) == IF RGe(a, b) THEN a ELSE b

\* Math.round: the nearest integer, halves rounded towards +infinity
Round(a) == (2 * a.n + a.d) \div (2 * a.d)

Min(a, b) == IF a <= b THEN a ELSE b
Max(a, b) == IF a >= b THEN a ELSE b

\* Math.min(100, Math.max(0, score))
Clamp(score) == Min(100, Max(0, score))

-----------------------------------------------------------------------------
(* Knowledge base *)

\* STANDARD_CRITERIA, in the order every category lists its criteria
Criteria == <<"cost", "performance", "scalability", "learningCurve",
              "vendorLockIn", "maintainability">>

CriteriaSet == {Criteria[i] : i \in DOMAIN Criteria}

NeutralScore == 50

\* A TechnicalOption is [name, category, hasMetadata, metadata]: metadata is a
\* function from the attribute names present to their values, and hasMetadata
\* is FALSE for an option whose metadata is undefined.
Has(data, key) == key \in DOMAIN data

\* `data.key && ...` on a numeric attribute: undefined and 0 are falsy
Truthy(data, key) == Has(data, key) /\ data[key] # 0

\* `data.key === value` on a string attribute
Is(data, key, value) == Has(data, key) /\ data[key] = value

\* `data.key > k` and friends: a comparison with undefined is false
Gt(data, key, k) == Has(data, key) /\ data[key] > k
Ge(data, key, k) == Has(data, key) /\ data[key] >= k
Lt(data, key, k) == Truthy(data, key) /\ data[key] < k

\* `(data.key || []).length`
ListLength(data, key) == IF Has(data, key) THEN Len(data[key]) ELSE 0

HasDomainKnowledge(category) == category \in {"cloud", "backend", "database"}

getKnownTechnologiesForCategory(category) ==
    CASE category = "cloud" ->
           { <<"a","w","s">>,
             <<"g","c","p">>,
             <<"a","z","u","r","e">>,
             <<"d","i","g","i","t","a","l","o","c","e","a","n">>,
             <<"l","i","n","o","d","e">>,
             <<"v","u","l","t","r">> }
      [] category = "backend" ->
           { <<"n","o","d","e",".","j","s">>,
             <<"d","j","a","n","g","o">>,
             <<"s","p","r","i","n","g"," ","b","o","o","t">>,
             <<"e","x","p","r","e","s","s">>,
             <<"f","a","s","t","a","p","i">>,
             <<"r","a","i","l","s">>,
             <<"l","a","r","a","v","e","l">> }
      [] category = "database" ->
           { <<"p","o","s","t","g","r","e","s","q","l">>,
             <<"m","y","s","q","l">>,
             <<"m","o","n","g","o","d","b">>,
             <<"r","e","d","i","s">>,
             <<"c","a","s","s","a","n","d","r","a">>,
             <<"d","y","n","a","m","o","d","b">> }
      [] OTHER -> {}

\* The name of an option whose name is undefined instead of a string
Undefined == <<"undefined">>

\* `option.name.toLowerCase()` throws a TypeError
ToLowerCaseThrows(name) == name = Undefined

isKnownTechnology(option) ==
    /\ HasDomainKnowledge(option.category)
    /\ ToLowerCase(option.name) \in getKnownTechnologiesForCategory(option.category)

\* isKnownTechnology throws instead of returning: the name is read only for a
\* category with domain knowledge
isKnownTechnologyThrows(option) ==
    HasDomainKnowledge(option.category) /\ ToLowerCaseThrows(option.name)

openSourceDatabases ==
    { <<"p","o","s","t","g","r","e","s","q","l">>,
      <<"m","y","s","q","l">>,
      <<"m","o","n","g","o","d","b">>,
      <<"r","e","d","i","s">>,
      <<"c","a","s","s","a","n","d","r","a">> }

(* Cloud provider scoring functions *)

\* scoreCloudCost with every pricing model scored as pay-as-you-go
scoreCloudCostFlatPricing(option) ==
    LET data == option.metadata
        pricing == IF Has(data, "pricingModel") THEN 15 ELSE 0
        share == IF Gt(data, "marketShare", 30) THEN 10
                 ELSE IF Gt(data, "marketShare", 15) THEN 5 ELSE 0
    IN  IF ~option.hasMetadata THEN 50 ELSE Clamp(50 + pricing + share)

scoreCloudCost(option) ==
    LET data == option.metadata
        pricing == IF Is(data, "pricingModel", "pay-as-you-go") THEN 15
                   ELSE IF Is(data, "pricingModel", "hybrid") THEN 10
                   ELSE IF Is(data, "pricingModel", "reserved") THEN 5 ELSE 0
        share == IF Gt(data, "marketShare", 30) THEN 10
                 ELSE IF Gt(data, "marketShare", 15) THEN 5 ELSE 0
    IN  IF ~option.hasMetadata THEN 50 ELSE Clamp(50 + pricing + share)

scoreCloudPerformance(option) ==
    LET data == option.metadata
        regions == IF Gt(data, "regions", 20) THEN 20
                   ELSE IF Gt(data, "regions", 10) THEN 15
                   ELSE IF Gt(data, "regions", 5) THEN 10 ELSE 0
        share == IF Gt(data, "marketShare", 30) THEN 15
                 ELSE IF Gt(data, "marketShare", 15) THEN 10 ELSE 0
    IN  IF ~option.hasMetadata THEN 50 ELSE Clamp(50 + regions + share)

scoreCloudScalability(option) ==
    LET data == option.metadata
        services == IF Gt(data, "serviceCount", 200) THEN 20
                    ELSE IF Gt(data, "serviceCount", 100) THEN 15
                    ELSE IF Gt(data, "serviceCount", 50) THEN 10 ELSE 0
        regions == IF Gt(data, "regions", 15) THEN 15
                   ELSE IF Gt(data, "regions", 8) THEN 10 ELSE 0
    IN  IF ~option.hasMetadata THEN 50 ELSE Clamp(50 + services + regions)

scoreCloudLearningCurve(option) ==
    LET data == option.metadata
        curve == IF Is(data, "learningCurve", "low") THEN 20
                 ELSE IF Is(data, "learningCurve", "medium") THEN 10 ELSE 0
        share == IF Gt(data, "marketShare", 30) THEN 15
                 ELSE IF Gt(data, "marketShare", 15) THEN 10 ELSE 0
    IN  IF ~option.hasMetadata THEN 50 ELSE Clamp(50 + curve + share)

scoreCloudVendorLockIn(option) ==
    LET data == option.metadata
        services == IF Lt(data, "serviceCount", 50) THEN 20
                    ELSE IF Lt(data, "serviceCount", 100) THEN 10 ELSE 0
        share == IF Lt(data, "marketShare", 10) THEN 15
                 ELSE IF Lt(data, "marketShare", 25) THEN 10 ELSE 0
    IN  IF ~option.hasMetadata THEN 50 ELSE Clamp(50 + services + share)

scoreCloudMaintainability(option) ==
    LET data == option.metadata
        features == Min(20, ListLength(data, "enterpriseFeatures") * 2)
        certs == Min(15, ListLength(data, "certifications") * 3)
        share == IF Gt(data, "marketShare", 30) THEN 10
                 ELSE IF Gt(data, "marketShare", 15) THEN 5 ELSE 0
    IN  IF ~option.hasMetadata THEN 50 ELSE Clamp(50 + features + certs + share)

(* Backend framework scoring functions *)

scoreBackendCost(option) ==
    LET data == option.metadata
        language == IF Is(data, "language", "javascript") \/ Is(data, "language", "python")
                    THEN 10
                    ELSE IF Is(data, "language", "java") \/ Is(data, "language", "c#")
                    THEN 5 ELSE 0
        speed == IF Truthy(data, "developmentSpeed") /\ Ge(data, "developmentSpeed", 8)
                 THEN 15
                 ELSE IF Truthy(data, "developmentSpeed") /\ Ge(data, "developmentSpeed", 6)
                 THEN 10 ELSE 0
    IN  IF ~option.hasMetadata THEN 50 ELSE Clamp(50 + 15 + language + speed)

scoreBackendPerformance(option) ==
    LET data == option.metadata
        rating == IF Truthy(data, "performanceRating")
                  THEN data["performanceRating"] * 7 ELSE 0
    IN  IF ~option.hasMetadata THEN 50 ELSE Clamp(30 + rating)

scoreBackendScalability(option) ==
    LET data == option.metadata
        rating == IF Ge(data, "performanceRating", 8) THEN 20
                  ELSE IF Ge(data, "performanceRating", 6) THEN 15
                  ELSE IF Ge(data, "performanceRating", 4) THEN 10 ELSE 0
        adoption == IF Ge(data, "enterpriseAdoption", 8) THEN 15
                    ELSE IF Ge(data, "enterpriseAdoption", 6) THEN 10 ELSE 0
    IN  IF ~option.hasMetadata THEN 50 ELSE Clamp(50 + rating + adoption)

scoreBackendLearningCurve(option) ==
    LET data == option.metadata
        speed == IF Truthy(data, "developmentSpeed")
                 THEN data["developmentSpeed"] * 5 ELSE 0
        curve == IF Is(data, "learningCurve", "low") THEN 20
                 ELSE IF Is(data, "learningCurve", "medium") THEN 10 ELSE 0
    IN  IF ~option.hasMetadata THEN 50 ELSE Clamp(30 + speed + curve)

scoreBackendVendorLockIn(option) ==
    LET data == option.metadata
        language == IF \/ Is(data, "language", "javascript")
                       \/ Is(data, "language", "python")
                       \/ Is(data, "language", "java")
                    THEN 15 ELSE 0
        ecosystem == IF Gt(data, "packageEcosystem", 100000) THEN 15
                     ELSE IF Gt(data, "packageEcosystem", 50000) THEN 10 ELSE 0
    IN  IF ~option.hasMetadata THEN 50 ELSE Clamp(70 + language + ecosystem)

scoreBackendMaintainability(option) ==
    LET data == option.metadata
        community == IF Gt(data, "communitySize", 100000) THEN 25
                     ELSE IF Gt(data, "communitySize", 50000) THEN 20
                     ELSE IF Gt(data, "communitySize", 10000) THEN 15 ELSE 0
        adoption == IF Ge(data, "enterpriseAdoption", 8) THEN 20
                    ELSE IF Ge(data, "enterpriseAdoption", 6) THEN 15
                    ELSE IF Ge(data, "enterpriseAdoption", 4) THEN 10 ELSE 0
        ecosystem == IF Gt(data, "packageEcosystem", 100000) THEN 15
                     ELSE IF Gt(data, "packageEcosystem", 50000) THEN 10 ELSE 0
    IN  IF ~option.hasMetadata THEN 50 ELSE Clamp(30 + community + adoption + ecosystem)

(* Database scoring functions *)

scoreDatabaseCost(option) ==
    LET data == option.metadata
        open == IF ToLowerCase(option.name) \in openSourceDatabases THEN 20 ELSE 0
        complexity == IF Is(data, "queryComplexity", "simple") THEN 15
                      ELSE IF Is(data, "queryComplexity", "moderate") THEN 10 ELSE 0
    IN  IF ~option.hasMetadata THEN 50 ELSE Clamp(50 + open + complexity)

scoreDatabasePerformance(option) ==
    LET data == option.metadata
        rating == IF Truthy(data, "performanceRating")
                  THEN data["performanceRating"] * 7 ELSE 0
    IN  IF ~option.hasMetadata THEN 50 ELSE Clamp(30 + rating)

scoreDatabaseScalability(option) ==
    LET data == option.metadata
        scaling == IF Is(data, "horizontalScaling", "excellent") THEN 25
                   ELSE IF Is(data, "horizontalScaling", "good") THEN 15
                   ELSE IF Is(data, "horizontalScaling", "poor") THEN -10 ELSE 0
        schema == IF Is(data, "schemaFlexibility", "schemaless") THEN 15
                  ELSE IF Is(data, "schemaFlexibility", "flexible") THEN 10 ELSE 0
        nosql == IF ~Is(data, "type", "relational") THEN 10 ELSE 0
    IN  IF ~option.hasMetadata THEN 50 ELSE Clamp(50 + scaling + schema + nosql)

scoreDatabaseLearningCurve(option) ==
    LET data == option.metadata
        complexity == IF Is(data, "queryComplexity", "simple") THEN 20
                      ELSE IF Is(data, "queryComplexity", "moderate") THEN 10 ELSE 0
        sql == IF Is(data, "type", "relational") THEN 15 ELSE 0
        rigid == IF Is(data, "schemaFlexibility", "rigid") THEN 10 ELSE 0
    IN  IF ~option.hasMetadata THEN 50 ELSE Clamp(50 + complexity + sql + rigid)

scoreDatabaseVendorLockIn(option) ==
    LET data == option.metadata
        sql == IF Is(data, "type", "relational") THEN 20 ELSE 0
        open == IF ToLowerCase(option.name) \in openSourceDatabases THEN 25 ELSE 0
        standard == IF Is(data, "type", "relational") THEN 10 ELSE 0
    IN  IF ~option.hasMetadata THEN 50 ELSE Clamp(50 + sql + open + standard)

scoreDatabaseMaintainability(option) ==
    LET data == option.metadata
        acid == IF Is(data, "acidCompliance", TRUE) THEN 20 ELSE 0
        consistency == IF Is(data, "consistencyModel", "strong") THEN 15
                       ELSE IF Is(data, "consistencyModel", "configurable") THEN 10
                       ELSE 0
        mature == IF Is(data, "type", "relational") THEN 10 ELSE 0
    IN  IF ~option.hasMetadata THEN 50 ELSE Clamp(50 + acid + consistency + mature)

\* The scoringFunction of criterion `criterion` in the criteria of `category`
\* (getCriteriaForCategory; getGenericCriteria for a category without knowledge)
scoringFunction(category, criterion, option) ==
    CASE category = "cloud" ->
           (CASE criterion = "cost" -> scoreCloudCost(option)
              [] criterion = "performance" -> scoreCloudPerformance(option)
              [] criterion = "scalability" -> scoreCloudScalability(option)
              [] criterion = "learningCurve" -> scoreCloudLearningCurve(option)
              [] criterion = "vendorLockIn" -> scoreCloudVendorLockIn(option)
              [] criterion = "maintainability" -> scoreCloudMaintainability(option))
      [] category = "backend" ->
           (CASE criterion = "cost" -> scoreBackendCost(option)
              [] criterion = "performance" -> scoreBackendPerformance(option)
              [] criterion = "scalability" -> scoreBackendScalability(option)
              [] criterion = "learningCurve" -> scoreBackendLearningCurve(option)
              [] criterion = "vendorLockIn" -> scoreBackendVendorLockIn(option)
              [] criterion = "maintainability" -> scoreBackendMaintainability(option))
      [] category = "database" ->
           (CASE criterion = "cost" -> scoreDatabaseCost(option)
              [] criterion = "performance" -> scoreDatabasePerformance(option)
              [] criterion = "scalability" -> scoreDatabaseScalability(option)
              [] criterion = "learningCurve" -> scoreDatabaseLearningCurve(option)
              [] criterion = "vendorLockIn" -> scoreDatabaseVendorLockIn(option)
              [] criterion = "maintainability" -> scoreDatabaseMaintainability(option))
      [] OTHER -> NeutralScore

\* The scoring rules of a category, in order: the rule's condition is named by
\* `rule` and evaluated by RuleCondition.
getScoringRulesForCategory(category) ==
    CASE category = "cloud" ->
           << [rule |-> "Enterprise Features Bonus", scoreAdjustment |-> 10,
               affectedCriteria |-> <<"maintainability">>],
              [rule |-> "High Market Share Bonus", scoreAdjustment |-> 5,
               affectedCriteria |-> <<"learningCurve", "maintainability">>],
              [rule |-> "Pay-as-you-go Cost Advantage", scoreAdjustment |-> 8,
               affectedCriteria |-> <<"cost">>] >>
      [] category = "backend" ->
           << [rule |-> "High Development Speed Bonus", scoreAdjustment |-> 10,
               affectedCriteria |-> <<"learningCurve">>],
              [rule |-> "Large Community Bonus", scoreAdjustment |-> 8,
               affectedCriteria |-> <<"maintainability", "learningCurve">>],
              [rule |-> "Enterprise Adoption Bonus", scoreAdjustment |-> 6,
               affectedCriteria |-> <<"maintainability">>] >>
      [] category = "database" ->
           << [rule |-> "ACID Compliance Bonus", scoreAdjustment |-> 10,
               affectedCriteria |-> <<"maintainability">>],
              [rule |-> "Schema Flexibility Bonus", scoreAdjustment |-> 8,
               affectedCriteria |-> <<"scalability">>],
              [rule |-> "Strong Consistency Bonus", scoreAdjustment |-> 6,
               affectedCriteria |-> <<"maintainability">>] >>
      [] OTHER -> << >>

\* rule.condition(option): hasEnterpriseFeatures .. hasStrongConsistency
RuleCondition(rule, option) ==
    LET data == option.metadata
    IN  /\ option.hasMetadata
        /\ CASE rule = "Enterprise Features Bonus" ->
                  Has(data, "enterpriseFeatures") /\ Len(data["enterpriseFeatures"]) > 5
             [] rule = "High Market Share Bonus" -> Gt(data, "marketShare", 25)
             [] rule = "Pay-as-you-go Cost Advantage" ->
                  Is(data, "pricingModel", "pay-as-you-go")
             [] rule = "High Development Speed Bonus" -> Ge(data, "developmentSpeed", 8)
             [] rule = "Large Community Bonus" -> Gt(data, "communitySize", 50000)
             [] rule = "Enterprise Adoption Bonus" -> Ge(data, "enterpriseAdoption", 7)
             [] rule = "ACID Compliance Bonus" -> Is(data, "acidCompliance", TRUE)
             [] rule = "Schema Flexibility Bonus" ->
                  \/ Is(data, "schemaFlexibility", "flexible")
                  \/ Is(data, "schemaFlexibility", "schemaless")
             [] rule = "Strong Consistency Bonus" -> Is(data, "consistencyModel", "strong")

getFallbackMetadata(category) ==
    CASE category = "cloud" ->
           [name |-> "Unknown Cloud Provider", pricingModel |-> "pay-as-you-go",
            serviceCount |-> 50, enterpriseFeatures |-> << >>,
            learningCurve |-> "medium", marketShare |-> 5, regions |-> 5,
            certifications |-> << >>]
      [] category = "backend" ->
           [name |-> "Unknown Backend Framework", language |-> "unknown",
            developmentSpeed |-> 5, communitySize |-> 10000,
            enterpriseAdoption |-> 5, performanceRating |-> 5,
            learningCurve |-> "medium", packageEcosystem |-> 10000]
      [] category = "database" ->
           [name |-> "Unknown Database", type |-> "relational",
            schemaFlexibility |-> "rigid", queryComplexity |-> "moderate",
            horizontalScaling |-> "good", consistencyModel |-> "strong",
            acidCompliance |-> TRUE, performanceRating |-> 5]
      [] OTHER -> << >>

\* Only called for an option that is not a known technology (processOption)
getTechnologyMetadata(option) ==
    IF isKnownTechnology(option) THEN option.metadata
    ELSE getFallbackMetadata(option.category)

\* evaluateOption with the cloud criteria standing in for the generic ones
evaluateOptionGenericAsCloud(option) ==
    [c \in CriteriaSet |->
        IF HasDomainKnowledge(option.category)
        THEN scoringFunction(option.category, c, option)
        ELSE scoringFunction("cloud", c, option)]

\* The scoringFunction of the criterion throws on the option: the two database
\* functions that read the name, once past their check of the metadata
scoringFunctionThrows(category, criterion, option) ==
    /\ category = "database"
    /\ criterion \in {"cost", "vendorLockIn"}
    /\ option.hasMetadata
    /\ ToLowerCaseThrows(option.name)

\* evaluateOption without the try around the scoring function: the first throw
\* ends the call with no scores
evaluateOptionUncaught(option) ==
    IF \E c \in CriteriaSet : scoringFunctionThrows(option.category, c, option)
    THEN << >>
    ELSE [c \in CriteriaSet |-> scoringFunction(option.category, c, option)]

evaluateOption(option) ==
    [c \in CriteriaSet |->
        IF scoringFunctionThrows(option.category, c, option) THEN 50
        ELSE scoringFunction(option.category, c, option)]

\* One rule applied to the scores: each affected criterion present is raised
\* by the rule's adjustment and clamped
RECURSIVE ApplyRule(_, _, _)
ApplyRule(scores, adjustment, affected) ==
    IF affected = << >> THEN scores
    ELSE LET c == Head(affected)
             next == IF c \in DOMAIN scores
                     THEN [scores EXCEPT ![c] = Clamp(scores[c] + adjustment)]
                     ELSE scores
         IN  ApplyRule(next, adjustment, Tail(affected))

\* The conditions read the metadata behind `data && ...` and never the name:
\* none throws, and the catch around a rule is never entered
RECURSIVE ApplyRules(_, _, _)
ApplyRules(option, scores, rules) ==
    IF rules = << >> THEN scores
    ELSE LET rule == Head(rules)
             next == IF RuleCondition(rule.rule, option)
                     THEN ApplyRule(scores, rule.scoreAdjustment, rule.affectedCriteria)
                     ELSE scores
         IN  ApplyRules(option, next, Tail(rules))

applyScoreAdjustments(option, baseScores) ==
    ApplyRules(option, baseScores, getScoringRulesForCategory(option.category))

getComprehensiveEvaluation(option) ==
    applyScoreAdjustments(option, evaluateOption(option))

-----------------------------------------------------------------------------
(* Comparison engine: option validation and processing *)

MinOptions == 2
MaxOptions == 3

\* The error codes of the ValidationResult; isValid is `errors.length === 0`.
\* Warnings never reach evaluate's outcome and are left out.
\* validateOptionCount with the upper limit off by one
validateOptionCountLoose(opts) ==
    IF Len(opts) < MinOptions THEN <<"OPTIONS_TOO_FEW">>
    ELSE IF Len(opts) > MaxOptions + 1 THEN <<"OPTIONS_TOO_MANY">>
    ELSE << >>

validateOptionCount(opts) ==
    IF Len(opts) < MinOptions THEN <<"OPTIONS_TOO_FEW">>
    ELSE IF Len(opts) > MaxOptions THEN <<"OPTIONS_TOO_MANY">>
    ELSE << >>

validateSingleOption(option) ==
    (IF Trim(option.name) = << >> THEN <<"OPTION_NAME_EMPTY">> ELSE << >>)
    \o (IF option.category = "" THEN <<"OPTION_CATEGORY_INVALID">> ELSE << >>)

\* The characters of a category, as the template literal of the key writes them
CategoryChars(category) ==
    CASE category = "" -> << >>
      [] category = "cloud" -> <<"c","l","o","u","d">>
      [] category = "backend" -> <<"b","a","c","k","e","n","d">>
      [] category = "database" -> <<"d","a","t","a","b","a","s","e">>
      [] category = "frontend" -> <<"f","r","o","n","t","e","n","d">>
      [] category = "mobile" -> <<"m","o","b","i","l","e">>
      [] category = "js-backend" -> <<"j","s","-","b","a","c","k","e","n","d">>

\* The key of the `seen` set: `${name.toLowerCase()}-${category}`
DuplicateKey(option) ==
    ToLowerCase(option.name) \o <<"-">> \o CategoryChars(option.category)

RECURSIVE DuplicateErrors(_, _, _)
DuplicateErrors(opts, i, seen) ==
    IF i > Len(opts) THEN << >>
    ELSE IF opts[i].name = << >> THEN DuplicateErrors(opts, i + 1, seen)
    ELSE IF DuplicateKey(opts[i]) \in seen
         THEN <<"OPTION_DUPLICATE">> \o DuplicateErrors(opts, i + 1, seen)
         ELSE DuplicateErrors(opts, i + 1, seen \cup {DuplicateKey(opts[i])})

validateNoDuplicates(opts) == DuplicateErrors(opts, 1, {})

RECURSIVE SingleOptionErrors(_, _)
SingleOptionErrors(opts, i) ==
    IF i > Len(opts) THEN << >>
    ELSE validateSingleOption(opts[i]) \o SingleOptionErrors(opts, i + 1)

validateTechnicalOptions(opts) ==
    LET countErrors == validateOptionCount(opts)
    IN  IF countErrors # << >> THEN countErrors
        ELSE SingleOptionErrors(opts, 1) \o validateNoDuplicates(opts)

\* The merge with the fallback attributes winning over the option's own
MergeMetadataFallbackFirst(fallback, own) ==
    [k \in DOMAIN fallback \cup DOMAIN own |->
        IF k \in DOMAIN fallback THEN fallback[k] ELSE own[k]]

\* { ...fallbackMetadata, ...option.metadata }: the option's own attributes win
MergeMetadata(fallback, own) ==
    [k \in DOMAIN fallback \cup DOMAIN own |->
        IF k \in DOMAIN own THEN own[k] ELSE fallback[k]]

processOption(option) ==
    IF isKnownTechnology(option) THEN option
    ELSE [option EXCEPT !.hasMetadata = TRUE,
                        !.metadata = MergeMetadata(getTechnologyMetadata(option),
                                                   option.metadata)]

processOptions(opts) == [i \in DOMAIN opts |-> processOption(opts[i])]

\* processOptions throws instead of returning
processOptionsThrows(opts) == \E i \in DOMAIN opts : isKnownTechnologyThrows(opts[i])

-----------------------------------------------------------------------------
(* Comparison engine: priority weighting *)

PriorityKeys == <<"cost", "performance", "easeOfUse", "scalability", "vendorLockIn">>

PriorityKeySet == {PriorityKeys[i] : i \in DOMAIN PriorityKeys}

normalizePriorities(priorities) ==
    LET total == priorities.cost + priorities.performance + priorities.easeOfUse
                 + priorities.scalability + priorities.vendorLockIn
    IN  IF total = 0 THEN [k \in PriorityKeySet |-> Rat(2, 10)]
        ELSE [k \in PriorityKeySet |-> Rat(priorities[k], total)]

\* getEmphasisFactor with the factors of priorities 4 and 5 exchanged
getEmphasisFactorSwapped(priority) ==
    CASE priority = 5 -> Rat(12, 10)
      [] priority = 4 -> Rat(15, 10)
      [] priority = 3 -> Rat(10, 10)
      [] priority = 2 -> Rat(8, 10)
      [] priority = 1 -> Rat(5, 10)
      [] OTHER -> Rat(10, 10)

getEmphasisFactor(priority) ==
    CASE priority = 5 -> Rat(15, 10)
      [] priority = 4 -> Rat(12, 10)
      [] priority = 3 -> Rat(10, 10)
      [] priority = 2 -> Rat(8, 10)
      [] priority = 1 -> Rat(5, 10)
      [] OTHER -> Rat(10, 10)

applyPriorityEmphasis(normalizedPriorities, rawPriorities) ==
    LET emphasized == [k \in PriorityKeySet |->
                          RMul(normalizedPriorities[k],
                               getEmphasisFactor(rawPriorities[k]))]
        total == RAdd(RAdd(RAdd(RAdd(emphasized.cost, emphasized.performance),
                                emphasized.easeOfUse),
                           emphasized.scalability),
                      emphasized.vendorLockIn)
    IN  IF RGt(total, RInt(0))
        THEN [k \in PriorityKeySet |-> RDiv(emphasized[k], total)]
        ELSE emphasized

\* criteriaMapping with maintainability weighted as a criterion of its own kind:
\* 0.3 of the cost weight and 0.3 of the performance weight
criteriaMappingEvenComposite(emphasizedWeights) ==
    [c \in CriteriaSet |->
        CASE c = "cost" -> emphasizedWeights.cost
          [] c = "performance" -> emphasizedWeights.performance
          [] c = "scalability" -> emphasizedWeights.scalability
          [] c = "learningCurve" -> emphasizedWeights.easeOfUse
          [] c = "vendorLockIn" -> emphasizedWeights.vendorLockIn
          [] c = "maintainability" ->
               RAdd(RMul(emphasizedWeights.cost, Rat(3, 10)),
                    RMul(emphasizedWeights.performance, Rat(3, 10)))]

\* criteriaMapping: the weight of each standard criterion
criteriaMapping(emphasizedWeights) ==
    [c \in CriteriaSet |->
        CASE c = "cost" -> emphasizedWeights.cost
          [] c = "performance" -> emphasizedWeights.performance
          [] c = "scalability" -> emphasizedWeights.scalability
          [] c = "learningCurve" -> emphasizedWeights.easeOfUse
          [] c = "vendorLockIn" -> emphasizedWeights.vendorLockIn
          [] c = "maintainability" ->
               RAdd(RMul(emphasizedWeights.cost, Rat(3, 10)),
                    RMul(emphasizedWeights.performance, Rat(2, 10)))]

\* <<weightedSum, totalWeight>> over the criteria from index i on
RECURSIVE WeightedSums(_, _, _)
WeightedSums(criteriaScores, weights, i) ==
    IF i > Len(Criteria) THEN <<RInt(0), RInt(0)>>
    ELSE LET c == Criteria[i]
             rest == WeightedSums(criteriaScores, weights, i + 1)
         IN  IF c \in DOMAIN criteriaScores
             THEN <<RAdd(RMul(RInt(criteriaScores[c]), weights[c]), rest[1]),
                    RAdd(weights[c], rest[2])>>
             ELSE rest

calculateWeightedScore(criteriaScores, priorities) ==
    LET normalizedPriorities == normalizePriorities(priorities)
        emphasizedWeights == applyPriorityEmphasis(normalizedPriorities, priorities)
        sums == WeightedSums(criteriaScores, criteriaMapping(emphasizedWeights), 1)
    IN  IF RGt(sums[2], RInt(0)) THEN RDiv(sums[1], sums[2])
        ELSE RInt(NeutralScore)

calculateOptionScore(option, input) ==
    LET baseScores == getComprehensiveEvaluation(option)
        weightedScore == calculateWeightedScore(baseScores, input.priorities)
    IN  [option |-> option, criteriaScores |-> baseScores,
         weightedScore |-> weightedScore, normalizedScore |-> Round(weightedScore)]

calculateScores(opts, input) ==
    [i \in DOMAIN opts |-> calculateOptionScore(opts[i], input)]

-----------------------------------------------------------------------------
(* Comparison engine: contextual adjustments *)

ScaleUsersThreshold == 100000

\* adjustments[key] = value on a Record: a later assignment replaces an earlier one
Put(adjustments, key, value) ==
    [k \in DOMAIN adjustments \cup {key} |->
        IF k = key THEN value ELSE adjustments[k]]

\* constraints.team.experience.some(exp => exp.toLowerCase().includes(name.toLowerCase()))
HasExperienceWith(option, input) ==
    \E i \in DOMAIN input.team.experience :
        Includes(ToLowerCase(input.team.experience[i]), ToLowerCase(option.name))

calculateContextualAdjustments(option, input) ==
    LET a0 == << >>
        a1 == IF input.budget = "low" THEN Put(a0, "cost", 10)
              ELSE IF input.budget = "high" THEN Put(a0, "performance", 5)
              ELSE a0
        a2 == IF input.timeline = "immediate" THEN Put(a1, "learningCurve", 15)
              ELSE IF input.timeline = "long" THEN Put(a1, "scalability", 10)
              ELSE a1
        a3 == IF input.team.skillLevel = "junior"
              THEN Put(Put(a2, "learningCurve", 10), "maintainability", 5)
              ELSE IF input.team.skillLevel = "senior" THEN Put(a2, "performance", 5)
              ELSE a2
        a4 == IF HasExperienceWith(option, input)
              THEN Put(Put(a3, "learningCurve", 20), "maintainability", 10)
              ELSE a3
        a5 == IF input.scale.users > ScaleUsersThreshold \/ input.scale.traffic = "high"
              THEN Put(Put(a4, "scalability", 15), "performance", 10)
              ELSE a4
    IN  a5

\* AdjustCriteriaScores without the clamp
AdjustCriteriaScoresUnclamped(criteriaScores, adjustments) ==
    [c \in DOMAIN criteriaScores |->
        IF c \in DOMAIN adjustments
        THEN criteriaScores[c] + adjustments[c]
        ELSE criteriaScores[c]]

\* The criteria scores after the adjustments: each adjusted criterion that the
\* scores hold is raised by its adjustment and clamped
AdjustCriteriaScores(criteriaScores, adjustments) ==
    [c \in DOMAIN criteriaScores |->
        IF c \in DOMAIN adjustments
        THEN Clamp(criteriaScores[c] + adjustments[c])
        ELSE criteriaScores[c]]

AdjustOptionScore(score, input) ==
    LET adjustments == calculateContextualAdjustments(score.option, input)
        adjusted == AdjustCriteriaScores(score.criteriaScores, adjustments)
        weightedScore == calculateWeightedScore(adjusted, input.priorities)
    IN  [option |-> score.option, criteriaScores |-> adjusted,
         weightedScore |-> weightedScore, normalizedScore |-> Round(weightedScore)]

applyContextualAdjustments(scores, input) ==
    [i \in DOMAIN scores |-> AdjustOptionScore(scores[i], input)]

\* `{ ...score }` copies the reference to criteriaScores: the record passed and
\* the record returned share one criteriaScores object, and the adjusted
\* scores are written into it.  These are the records passed, read after the
\* call.
SharedCriteriaScores(passed, returned) ==
    [i \in DOMAIN passed |->
        [passed[i] EXCEPT !.criteriaScores = returned[i].criteriaScores]]

-----------------------------------------------------------------------------
(* Comparison engine: ranking and trade-off analysis *)

\* InsertByScore that puts an element in front of the elements it ties with
RECURSIVE InsertByScoreBeforeTies(_, _, _)
InsertByScoreBeforeTies(scores, sorted, i) ==
    IF sorted = << >> THEN <<i>>
    ELSE IF RGe(scores[i].weightedScore, scores[Head(sorted)].weightedScore)
         THEN <<i>> \o sorted
         ELSE <<Head(sorted)>> \o InsertByScoreBeforeTies(scores, Tail(sorted), i)

\* Array.prototype.sort with the comparator b.weightedScore - a.weightedScore:
\* a stable sort, so an element goes behind every element that does not rank
\* strictly below it.  The sorted sequence holds indices into `scores`.
RECURSIVE InsertByScore(_, _, _)
InsertByScore(scores, sorted, i) ==
    IF sorted = << >> THEN <<i>>
    ELSE IF RGt(scores[i].weightedScore, scores[Head(sorted)].weightedScore)
         THEN <<i>> \o sorted
         ELSE <<Head(sorted)>> \o InsertByScore(scores, Tail(sorted), i)

RECURSIVE SortByScore(_, _)
SortByScore(scores, n) ==
    IF n = 0 THEN << >>
    ELSE InsertByScore(scores, SortByScore(scores, n - 1), n)

\* `index` is the position of the option in the input list; the code's
\* RankedOption holds the option object itself.
rankOptions(scores) ==
    LET sortedScores == SortByScore(scores, Len(scores))
    IN  [r \in DOMAIN sortedScores |->
            [option |-> scores[sortedScores[r]].option,
             index |-> sortedScores[r],
             rank |-> r,
             score |-> scores[sortedScores[r]].weightedScore]]

\* `criteriaScores[criterion] || 0`
ScoreOrZero(score, criterion) ==
    IF criterion \in DOMAIN score.criteriaScores
    THEN score.criteriaScores[criterion] ELSE 0

\* Strongest with a later option replacing the current one on an equal score
RECURSIVE StrongestLastOfTies(_, _, _, _)
StrongestLastOfTies(scores, criterion, i, best) ==
    IF i > Len(scores) THEN best
    ELSE StrongestLastOfTies(scores, criterion, i + 1,
                   IF ScoreOrZero(scores[i], criterion) >= ScoreOrZero(scores[best], criterion)
                   THEN i ELSE best)

\* The index of the strongest option for a criterion: a later option replaces
\* the current one only with a strictly higher score
RECURSIVE Strongest(_, _, _, _)
Strongest(scores, criterion, i, best) ==
    IF i > Len(scores) THEN best
    ELSE Strongest(scores, criterion, i + 1,
                   IF ScoreOrZero(scores[i], criterion) > ScoreOrZero(scores[best], criterion)
                   THEN i ELSE best)

RECURSIVE Weakest(_, _, _, _)
Weakest(scores, criterion, i, worst) ==
    IF i > Len(scores) THEN worst
    ELSE Weakest(scores, criterion, i + 1,
                 IF ScoreOrZero(scores[i], criterion) < ScoreOrZero(scores[worst], criterion)
                 THEN i ELSE worst)

CompromiseThreshold == 20

getCriterionPriority(criterion, priorities) ==
    CASE criterion = "cost" -> priorities.cost
      [] criterion = "performance" -> priorities.performance
      [] criterion = "scalability" -> priorities.scalability
      [] criterion = "learningCurve" -> priorities.easeOfUse
      [] criterion = "vendorLockIn" -> priorities.vendorLockIn
      [] criterion = "maintainability" -> Max(priorities.cost, priorities.performance)
      [] OTHER -> 3

determineImpact(scoreDifference, priority) ==
    LET impactScore == RMul(Rat(scoreDifference, 100), RInt(priority))
    IN  IF RGt(impactScore, Rat(15, 100)) THEN "high"
        ELSE IF RGt(impactScore, Rat(8, 100)) THEN "medium"
        ELSE "low"

\* allScores.filter(s => s.option.name !== optionScore.option.name)
OtherScores(allScores, i) ==
    {j \in DOMAIN allScores : allScores[j].option.name # allScores[i].option.name}

SetMax(S) == CHOOSE x \in S : \A y \in S : y <= x

\* The compromises of option i for the criteria from position k on.  With no
\* other option Math.max() is -Infinity and no difference exceeds the threshold.
RECURSIVE CompromisesFrom(_, _, _, _)
CompromisesFrom(allScores, i, input, k) ==
    IF k > Len(Criteria) THEN << >>
    ELSE LET criterion == Criteria[k]
             others == OtherScores(allScores, i)
             rest == CompromisesFrom(allScores, i, input, k + 1)
         IN  IF criterion \notin DOMAIN allScores[i].criteriaScores \/ others = {}
             THEN rest
             ELSE LET maxOtherScore ==
                          SetMax({ScoreOrZero(allScores[j], criterion) : j \in others})
                      scoreDifference ==
                          maxOtherScore - allScores[i].criteriaScores[criterion]
                  IN  IF scoreDifference > CompromiseThreshold
                      THEN << [index |-> i,
                               option |-> allScores[i].option.name,
                               impact |-> determineImpact(scoreDifference,
                                            getCriterionPriority(criterion, input.priorities)),
                               affectedCriteria |-> <<criterion>>] >> \o rest
                      ELSE rest

identifyCompromises(allScores, i, input) == CompromisesFrom(allScores, i, input, 1)

RECURSIVE AllCompromises(_, _, _)
AllCompromises(scores, i, input) ==
    IF i > Len(scores) THEN << >>
    ELSE identifyCompromises(scores, i, input) \o AllCompromises(scores, i + 1, input)

\* strongestOption and weakestOption map a criterion to the index of an option
generateTradeOffAnalysis(scores, input) ==
    LET allCriteria == UNION {DOMAIN scores[i].criteriaScores : i \in DOMAIN scores}
    IN  [strongestOption |-> [c \in allCriteria |-> Strongest(scores, c, 1, 1)],
         weakestOption |-> [c \in allCriteria |-> Weakest(scores, c, 1, 1)],
         compromises |-> AllCompromises(scores, 1, input)]

-----------------------------------------------------------------------------
(* Comparison engine: evaluate *)

NoTradeOffs == [strongestOption |-> << >>, weakestOption |-> << >>, compromises |-> << >>]

NoResult ==
    [status |-> "none", errors |-> << >>, scores |-> << >>, rankings |-> << >>,
     tradeOffs |-> NoTradeOffs]

\* The outcome of evaluate: status "ok" with the EvaluationResult, or status
\* "error" with the codes of the errors the thrown 'Invalid options' Error lists
evaluate(opts, input) ==
    LET errors == validateTechnicalOptions(opts)
        processedOptions == processOptions(opts)
        scores == applyContextualAdjustments(calculateScores(processedOptions, input),
                                             input)
    IN  IF errors # << >>
        THEN [NoResult EXCEPT !.status = "error", !.errors = errors]
        ELSE [status |-> "ok", errors |-> << >>, scores |-> scores,
              rankings |-> rankOptions(scores),
              tradeOffs |-> generateTradeOffAnalysis(scores, input)]

-----------------------------------------------------------------------------
(* Output generator: recommendation confidence *)

\* Math.sqrt is taken to 1/SqrtPrecision, rounded down
SqrtPrecision == 100

RECURSIVE ISqrtBetween(_, _, _)
ISqrtBetween(x, lo, hi) ==
    IF lo >= hi THEN lo
    ELSE LET mid == (lo + hi + 1) \div 2
         IN  IF mid * mid <= x THEN ISqrtBetween(x, mid, hi)
             ELSE ISqrtBetween(x, lo, mid - 1)

Sqrt(a) ==
    Rat(ISqrtBetween((a.n * SqrtPrecision * SqrtPrecision) \div a.d, 0, 46340),
        SqrtPrecision)

\* result.scores.find(s => s.option.name === name): the index of the first
\* score of an option with that name, 0 when there is none
FindScoreByName(res, name) ==
    IF \E i \in DOMAIN res.scores : res.scores[i].option.name = name
    THEN CHOOSE i \in DOMAIN res.scores :
            /\ res.scores[i].option.name = name
            /\ \A j \in 1..(i - 1) : res.scores[j].option.name # name
    ELSE 0

mapPriorityToCriterion(priority) ==
    CASE priority = "cost" -> "cost"
      [] priority = "performance" -> "performance"
      [] priority = "easeOfUse" -> "learningCurve"
      [] priority = "scalability" -> "scalability"
      [] priority = "vendorLockIn" -> "vendorLockIn"
      [] OTHER -> priority

\* `criteriaScores[criterion] || 50`: a missing score and a score of 0 give 50
ScoreOrNeutral(criteriaScores, criterion) ==
    IF criterion \in DOMAIN criteriaScores /\ criteriaScores[criterion] # 0
    THEN criteriaScores[criterion] ELSE NeutralScore

\* <<alignmentScore, totalWeight>> over the priorities from position i on
RECURSIVE AlignmentSums(_, _, _)
AlignmentSums(criteriaScores, weights, i) ==
    IF i > Len(PriorityKeys) THEN <<RInt(0), RInt(0)>>
    ELSE LET priority == PriorityKeys[i]
             score == ScoreOrNeutral(criteriaScores, mapPriorityToCriterion(priority))
             rest == AlignmentSums(criteriaScores, weights, i + 1)
         IN  <<RAdd(RMul(Rat(score, 100), weights[priority]), rest[1]),
               RAdd(weights[priority], rest[2])>>

calculatePriorityAlignment(optionScore, input) ==
    LET sums == AlignmentSums(optionScore.criteriaScores,
                              normalizePriorities(input.priorities), 1)
    IN  IF RGt(sums[2], RInt(0)) THEN RDiv(sums[1], sums[2]) ELSE Rat(5, 10)

RECURSIVE SumOver(_, _)
SumOver(f, S) ==
    IF S = {} THEN 0
    ELSE LET x == CHOOSE y \in S : TRUE IN f[x] + SumOver(f, S \ {x})

\* The variance of the criterion scores: (n * sum of squares - (sum)^2) / n^2
Variance(criteriaScores) ==
    LET n == Cardinality(DOMAIN criteriaScores)
        sum == SumOver(criteriaScores, DOMAIN criteriaScores)
        squares == SumOver([c \in DOMAIN criteriaScores |->
                               criteriaScores[c] * criteriaScores[c]],
                           DOMAIN criteriaScores)
    IN  Rat(n * squares - sum * sum, n * n)

calculateConsistencyBonus(res) ==
    LET top == FindScoreByName(res, res.rankings[1].option.name)
        standardDeviation == Sqrt(Variance(res.scores[top].criteriaScores))
        consistencyBonus ==
            RMax(RInt(0), RDiv(RSub(RInt(20), standardDeviation), RInt(100)))
    IN  IF top = 0 THEN RInt(0) ELSE RMin(Rat(2, 10), consistencyBonus)

\* BaseConfidence with the value of a gap above 10 for a gap above 20
BaseConfidenceModerate(scoreGap) ==
    IF RGt(scoreGap, RInt(10)) THEN Rat(75, 100)
    ELSE IF RGt(scoreGap, RInt(5)) THEN Rat(6, 10)
    ELSE Rat(4, 10)

BaseConfidence(scoreGap) ==
    IF RGt(scoreGap, RInt(20)) THEN Rat(9, 10)
    ELSE IF RGt(scoreGap, RInt(10)) THEN Rat(75, 100)
    ELSE IF RGt(scoreGap, RInt(5)) THEN Rat(6, 10)
    ELSE Rat(4, 10)

\* calculateRecommendationConfidence without Math.min(1.0, ...)
calculateRecommendationConfidenceUncapped(res, input) ==
    LET rankings == res.rankings
        scoreGap == RSub(rankings[1].score, rankings[2].score)
        top == FindScoreByName(res, rankings[1].option.name)
        aligned ==
            IF top = 0 THEN BaseConfidence(scoreGap)
            ELSE RAdd(BaseConfidence(scoreGap),
                      RMul(RSub(calculatePriorityAlignment(res.scores[top], input),
                                Rat(5, 10)),
                           Rat(2, 10)))
        consistent == RAdd(aligned, calculateConsistencyBonus(res))
    IN  IF Len(rankings) < 2 THEN Rat(5, 10)
        ELSE RMax(Rat(1, 10), consistent)

calculateRecommendationConfidence(res, input) ==
    LET rankings == res.rankings
        scoreGap == RSub(rankings[1].score, rankings[2].score)
        top == FindScoreByName(res, rankings[1].option.name)
        aligned ==
            IF top = 0 THEN BaseConfidence(scoreGap)
            ELSE RMin(RInt(1),
                      RAdd(BaseConfidence(scoreGap),
                           RMul(RSub(calculatePriorityAlignment(res.scores[top], input),
                                     Rat(5, 10)),
                                Rat(2, 10))))
        consistent == RMin(RInt(1), RAdd(aligned, calculateConsistencyBonus(res)))
    IN  IF Len(rankings) < 2 THEN Rat(5, 10)
        ELSE RMax(Rat(1, 10), RMin(RInt(1), consistent))

\* generateRecommendation: the recommended option and the confidence
generateRecommendation(res, input) ==
    [status |-> "ok",
     recommendedOption |-> res.rankings[1].option.name,
     confidence |-> calculateRecommendationConfidence(res, input)]

-----------------------------------------------------------------------------
(* Output generator: alternative scenarios *)

\* Object.entries(priorities).reduce with a strict comparison: the first key
\* with the highest priority
RECURSIVE TopPriorityKey(_, _, _)
TopPriorityKey(priorities, i, best) ==
    IF i > Len(PriorityKeys) THEN best
    ELSE TopPriorityKey(priorities, i + 1,
                        IF priorities[PriorityKeys[i]] > priorities[best]
                        THEN PriorityKeys[i] ELSE best)

getTopPriority(priorities) ==
    mapPriorityToCriterion(TopPriorityKey(priorities, 2, PriorityKeys[1]))

\* The index in res.scores of the first option with the highest score on the
\* criterion, 0 (null) for no scores
RECURSIVE BestForCriterionFrom(_, _, _, _, _)
BestForCriterionFrom(res, criterion, i, bestOption, bestScore) ==
    IF i > Len(res.scores) THEN bestOption
    ELSE LET criterionScore == ScoreOrZero(res.scores[i], criterion)
         IN  IF criterionScore > bestScore
             THEN BestForCriterionFrom(res, criterion, i + 1, i, criterionScore)
             ELSE BestForCriterionFrom(res, criterion, i + 1, bestOption, bestScore)

findBestOptionForCriterion(res, criterion) ==
    BestForCriterionFrom(res, criterion, 1, 0, -1)

\* (maintainability + scalability) / 2 + vendorSupport * 2
EnterpriseScore(score) ==
    RAdd(Rat(ScoreOrZero(score, "maintainability") + ScoreOrZero(score, "scalability"), 2),
         RInt(ListLength(score.option.metadata, "enterpriseFeatures") * 2))

RECURSIVE BestForEnterpriseFrom(_, _, _, _)
BestForEnterpriseFrom(res, i, bestOption, bestEnterpriseScore) ==
    IF i > Len(res.scores) THEN bestOption
    ELSE LET enterpriseScore == EnterpriseScore(res.scores[i])
         IN  IF RGt(enterpriseScore, bestEnterpriseScore)
             THEN BestForEnterpriseFrom(res, i + 1, i, enterpriseScore)
             ELSE BestForEnterpriseFrom(res, i + 1, bestOption, bestEnterpriseScore)

findBestOptionForEnterprise(res) == BestForEnterpriseFrom(res, 1, 0, RInt(-1))

\* `score.option.metadata.enterpriseFeatures` throws a TypeError for an option
\* whose metadata is undefined
findBestOptionForEnterpriseThrows(res) ==
    \E i \in DOMAIN res.scores : ~res.scores[i].option.hasMetadata

\* `best && best.name !== currentTopOption.name`
IsAlternative(res, best) ==
    best # 0 /\ res.scores[best].option.name # res.rankings[1].option.name

\* An AlternativeScenario: recommendedOption is the index of the option in
\* res.scores; the reasoning text is left out
Scenario(text, best) == [scenario |-> text, recommendedOption |-> best]

PriorityScenarioText(priority) ==
    CASE priority = "cost" -> "If cost optimization becomes your top priority"
      [] priority = "performance" -> "If maximum performance becomes your top priority"
      [] priority = "easeOfUse" -> "If ease of implementation becomes your top priority"
      [] priority = "scalability" -> "If future scalability becomes your top priority"
      [] priority = "vendorLockIn" -> "If vendor independence becomes your top priority"

RECURSIVE PriorityScenariosFrom(_, _, _)
PriorityScenariosFrom(res, input, i) ==
    IF i > Len(PriorityKeys) THEN << >>
    ELSE LET priority == PriorityKeys[i]
             priorityCriterion == mapPriorityToCriterion(priority)
             bestForPriority == findBestOptionForCriterion(res, priorityCriterion)
             rest == PriorityScenariosFrom(res, input, i + 1)
         IN  IF priorityCriterion = getTopPriority(input.priorities) THEN rest
             ELSE IF IsAlternative(res, bestForPriority)
                  THEN <<Scenario(PriorityScenarioText(priority), bestForPriority)>> \o rest
                  ELSE rest

generatePriorityBasedScenarios(res, input) == PriorityScenariosFrom(res, input, 1)

\* One scenario of the context and scale generators: pushed when its guard
\* holds and the best option is not named as the top option is
ScenarioIf(guard, res, best, text) ==
    IF guard /\ IsAlternative(res, best) THEN <<Scenario(text, best)>> ELSE << >>

generateContextBasedScenarios(res, input) ==
    ScenarioIf(input.budget # "low", res, findBestOptionForCriterion(res, "cost"),
               "If budget becomes a primary concern")
    \o ScenarioIf(input.timeline # "immediate", res,
                  findBestOptionForCriterion(res, "learningCurve"),
                  "If you need immediate deployment")
    \o ScenarioIf(input.team.skillLevel # "junior", res,
                  findBestOptionForCriterion(res, "performance"),
                  "If your team has strong technical expertise")

ScenarioUsersThreshold == 100000

generateScaleBasedScenarios(res, input) ==
    ScenarioIf(input.scale.users <= ScenarioUsersThreshold, res,
               findBestOptionForCriterion(res, "scalability"),
               "If you expect rapid growth to millions of users")
    \o ScenarioIf(TRUE, res, findBestOptionForEnterprise(res),
                  "If this becomes an enterprise-critical system")

MaxScenarios == 4

\* generateAlternativeScenarios without the slice
generateAlternativeScenariosUnlimited(res, input) ==
    IF Len(res.rankings) < 2 THEN << >>
    ELSE generatePriorityBasedScenarios(res, input)
         \o generateContextBasedScenarios(res, input)
         \o generateScaleBasedScenarios(res, input)

generateAlternativeScenarios(res, input) ==
    LET scenarios == generatePriorityBasedScenarios(res, input)
                     \o generateContextBasedScenarios(res, input)
                     \o generateScaleBasedScenarios(res, input)
    IN  IF Len(res.rankings) < 2 THEN << >>
        ELSE SubSeq(scenarios, 1, Min(MaxScenarios, Len(scenarios)))

\* generateAlternativeScenarios throws instead of returning
generateAlternativeScenariosThrows(res) ==
    Len(res.rankings) >= 2 /\ findBestOptionForEnterpriseThrows(res)

-----------------------------------------------------------------------------
(* Output generator: comparison table *)

Digits == <<"0","1","2","3","4","5","6","7","8","9">>

\* The decimal digits of a natural number
RECURSIVE DecimalDigits(_)
DecimalDigits(n) ==
    IF n < 10 THEN <<Digits[n + 1]>>
    ELSE DecimalDigits(n \div 10) \o <<Digits[(n % 10) + 1]>>

\* `${normalizedScore}/100`
OverallScoreText(normalizedScore) ==
    (IF normalizedScore < 0 THEN <<"-">> \o DecimalDigits(-normalizedScore)
     ELSE DecimalDigits(normalizedScore))
    \o <<"/","1","0","0">>

\* text.split('/')[0]
RECURSIVE BeforeSlash(_)
BeforeSlash(text) ==
    IF text = << >> \/ Head(text) = "/" THEN << >>
    ELSE <<Head(text)>> \o BeforeSlash(Tail(text))

DigitValue(c) == (CHOOSE i \in DOMAIN Digits : Digits[i] = c) - 1

\* The value of a string of digits read from the left, `value` being that of
\* the digits read so far; reading ends at the first other character
RECURSIVE ParseDigits(_, _)
ParseDigits(text, value) ==
    IF text = << >> \/ \A i \in DOMAIN Digits : Digits[i] # Head(text) THEN value
    ELSE ParseDigits(Tail(text), 10 * value + DigitValue(Head(text)))

\* parseInt on the text of a number: an optional sign and digits
parseInt(text) ==
    IF text # << >> /\ Head(text) = "-" THEN -ParseDigits(Tail(text), 0)
    ELSE ParseDigits(text, 0)

\* The number the sort of the rows reads back from a row
RowScore(row) == parseInt(BeforeSlash(row.values.OverallScore))

\* rows.sort with the comparator scoreB - scoreA: a stable sort, so a row goes
\* behind every row whose number is not below its own
RECURSIVE InsertRow(_, _)
InsertRow(sorted, row) ==
    IF sorted = << >> THEN <<row>>
    ELSE IF RowScore(row) > RowScore(Head(sorted)) THEN <<row>> \o sorted
         ELSE <<Head(sorted)>> \o InsertRow(Tail(sorted), row)

RECURSIVE SortRows(_, _)
SortRows(rows, n) ==
    IF n = 0 THEN << >> ELSE InsertRow(SortRows(rows, n - 1), rows[n])

\* The rows of the ComparisonTable: one per score, in the order of the scores,
\* then sorted by the overall score read back from its text.  Of the values of
\* a row the option name and the overall score are kept; the headers and the
\* criterion columns are texts for the reader.
generateComparisonTable(res) ==
    LET rows ==
            [i \in DOMAIN res.scores |->
                [option |-> res.scores[i].option,
                 values |-> [Option |-> res.scores[i].option.name,
                             OverallScore |->
                                 OverallScoreText(res.scores[i].normalizedScore)]]]
    IN  SortRows(rows, Len(rows))

NoOutput ==
    [status |-> "none", comparisonTable |-> << >>, recommendedOption |-> << >>,
     confidence |-> RInt(0), alternativeScenarios |-> << >>]

\* The ComparisonOutput: the rows of the comparison table, the final
\* recommendation and the alternative scenarios; status "thrown" when
\* generateComparison throws
generateComparison(res, input) ==
    IF generateAlternativeScenariosThrows(res)
    THEN [NoOutput EXCEPT !.status = "thrown"]
    ELSE LET finalRecommendation == generateRecommendation(res, input)
         IN  [status |-> "ok",
              comparisonTable |-> generateComparisonTable(res),
              recommendedOption |-> finalRecommendation.recommendedOption,
              confidence |-> finalRecommendation.confidence,
              alternativeScenarios |-> generateAlternativeScenarios(res, input)]

-----------------------------------------------------------------------------
(* Inputs *)

Name_AWS == <<"A","W","S">>
Name_aws == <<"a","w","s">>
Name_DigitalOcean == <<"D","i","g","i","t","a","l","O","c","e","a","n">>
Name_Nimbus == <<"N","i","m","b","u","s">>
Name_Django == <<"D","j","a","n","g","o">>
Name_React == <<"R","e","a","c","t">>
Exp_MyAWSStack == <<"M","y"," ","A","W","S"," ","s","t","a","c","k">>
Exp_Docker == <<"D","o","c","k","e","r">>

Option(name, category, metadata) ==
    [name |-> name, category |-> category, hasMetadata |-> TRUE, metadata |-> metadata]

\* The two cloud providers of the priority-emphasis scenario, both with
\* pay-as-you-go pricing
AWS ==
    Option(Name_AWS, "cloud",
           [pricingModel |-> "pay-as-you-go", serviceCount |-> 200,
            learningCurve |-> "high", marketShare |-> 32, regions |-> 25])

DigitalOcean ==
    Option(Name_DigitalOcean, "cloud",
           [pricingModel |-> "pay-as-you-go", serviceCount |-> 50,
            learningCurve |-> "low", marketShare |-> 3, regions |-> 8])

\* AWS as the priority-emphasis test prices it
AWSReserved == [AWS EXCEPT !.metadata["pricingModel"] = "reserved"]

\* A cloud provider the knowledge base does not know: fallback metadata
Nimbus == Option(Name_Nimbus, "cloud", [learningCurve |-> "high"])

\* A known backend framework with every attribute at its best
Django ==
    Option(Name_Django, "backend",
           [language |-> "python", developmentSpeed |-> 10, communitySize |-> 200000,
            enterpriseAdoption |-> 9, performanceRating |-> 10,
            learningCurve |-> "low", packageEcosystem |-> 300000])

\* Shares its name with the cloud provider AWS but not its category
AWSDatabase ==
    Option(Name_AWS, "database", [type |-> "document", performanceRating |-> -10])

\* Equals the cloud provider AWS up to the case of the name
LowerAWS == Option(Name_aws, "cloud", << >>)

\* No metadata at all, in a category without domain knowledge
React ==
    [name |-> Name_React, category |-> "frontend", hasMetadata |-> FALSE,
     metadata |-> << >>]

OptionPool == {AWS, DigitalOcean, Nimbus, Django, AWSDatabase, LowerAWS, React}

\* Lists longer than MaxOptions are drawn from this part of the pool
SmallPool == {AWS, DigitalOcean}

\* The longest option list tried has MaxOptions + MaxExtraOptions entries
MaxExtraOptions == 1

SeqsOf(S, n) == [1..n -> S]

OptionLists ==
    UNION {SeqsOf(OptionPool, n) : n \in 0..MaxOptions}
    \cup UNION {SeqsOf(SmallPool, n) :
                  n \in (MaxOptions + 1)..(MaxOptions + MaxExtraOptions)}

Priorities(c, p, e, s, v) ==
    [cost |-> c, performance |-> p, easeOfUse |-> e, scalability |-> s,
     vendorLockIn |-> v]

Constraints(budget, users, traffic, skillLevel, experience, timeline, priorities) ==
    [budget |-> budget, scale |-> [users |-> users, traffic |-> traffic],
     team |-> [skillLevel |-> skillLevel, experience |-> experience],
     timeline |-> timeline, priorities |-> priorities]

\* No contextual rule fires
NeutralConstraints ==
    Constraints("medium", 1000, "medium", "mixed", << >>, "short",
                Priorities(3, 3, 3, 3, 3))

\* The cost-focused constraints of the priority-emphasis scenario
CostFocusedConstraints ==
    Constraints("low", 100, "low", "junior", << >>, "immediate",
                Priorities(5, 1, 5, 1, 1))

\* The performance-focused constraints of the priority-emphasis scenario
PerformanceFocusedConstraints ==
    Constraints("high", 100000, "high", "senior", <<Name_AWS>>, "long",
                Priorities(1, 5, 1, 5, 1))

\* Every contextual rule that can fire together fires
StackingConstraints ==
    Constraints("low", 100001, "low", "junior", <<Exp_MyAWSStack, Name_Django>>,
                "immediate", Priorities(2, 4, 3, 5, 1))

ScenarioConstraints ==
    {NeutralConstraints, CostFocusedConstraints, PerformanceFocusedConstraints,
     StackingConstraints}

ContextConstraints ==
    {Constraints(b, u, tr, sk, ex, tl, pr) :
        b \in {"low", "medium", "high"},
        u \in {1000, ScaleUsersThreshold, ScaleUsersThreshold + 1},
        tr \in {"medium", "high"},
        sk \in {"junior", "mixed", "senior"},
        ex \in {<< >>, <<Exp_MyAWSStack, Exp_Docker>>},
        tl \in {"immediate", "short", "medium", "long"},
        pr \in {Priorities(3, 3, 3, 3, 3), Priorities(5, 1, 5, 1, 1)}}

ContextOptionLists == {<<AWS, DigitalOcean>>, <<DigitalOcean, Nimbus, Django>>}

\* The option lists of the priority-emphasis test, in both orders
FixtureOptionLists == {<<AWSReserved, DigitalOcean>>, <<DigitalOcean, AWSReserved>>}

-----------------------------------------------------------------------------
(* The engine and the output generator, called on the inputs *)

\* `call` holds the arguments of a direct call of calculateWeightedScore and
\* `ret` what the call returned; both stay empty where the engine is driven
\* through evaluate.
NoCall == [criteriaScores |-> << >>, priorities |-> Priorities(0, 0, 0, 0, 0)]

NoReturn == [status |-> "none", value |-> RInt(0)]

Init ==
    /\ \/ options \in OptionLists /\ constraints \in ScenarioConstraints
       \/ options \in FixtureOptionLists /\ constraints \in ScenarioConstraints
       \/ options \in ContextOptionLists /\ constraints \in ContextConstraints
    /\ result = NoResult
    /\ output = NoOutput
    /\ call = NoCall
    /\ ret = NoReturn
    /\ Constructed

\* ComparisonEngine.evaluate(options, constraints)
Evaluate ==
    /\ result.status = "none"
    /\ result' = evaluate(options, constraints)
    /\ UNCHANGED <<options, constraints, output, call, ret>>
    /\ UNCHANGED interactive

\* OutputGenerator.generateComparison(result, constraints)
GenerateComparison ==
    /\ result.status = "ok"
    /\ output.status = "none"
    /\ output' = generateComparison(result, constraints)
    /\ UNCHANGED <<options, constraints, result, call, ret>>
    /\ UNCHANGED interactive

Next == Evaluate \/ GenerateComparison

Spec == Init /\ [][Next]_vars

-----------------------------------------------------------------------------
(* calculateWeightedScore called on criterion scores and priorities *)

PriorityValues == 0..5

PriorityInputs == [PriorityKeySet -> PriorityValues]

\* Criterion scores: complete ones, and ones that lack criteria
CriteriaScoreInputs ==
    { [cost |-> 83, performance |-> 85, scalability |-> 80, learningCurve |-> 70,
       vendorLockIn |-> 50, maintainability |-> 65],
      [cost |-> 0, performance |-> 100, scalability |-> 50, learningCurve |-> 100,
       vendorLockIn |-> 0, maintainability |-> 100],
      [cost |-> 40, maintainability |-> 90],
      [learningCurve |-> 70],
      << >> }

\* Complete criterion scores at the ends and in the middle of the range
CompleteScoreInputs == [CriteriaSet -> {0, 50, 100}]

InitWeights ==
    /\ options = << >>
    /\ constraints = NeutralConstraints
    /\ result = NoResult
    /\ output = NoOutput
    /\ \/ call \in [criteriaScores : CriteriaScoreInputs, priorities : PriorityInputs]
       \/ call \in [criteriaScores : CompleteScoreInputs,
                     priorities : {Priorities(3, 3, 3, 3, 3), Priorities(0, 0, 0, 0, 0),
                                   Priorities(5, 4, 3, 2, 1)}]
    /\ ret = NoReturn
    /\ Constructed

CalculateWeightedScore ==
    /\ ret.status = "none"
    /\ ret' = [status |-> "ok",
               value |-> calculateWeightedScore(call.criteriaScores, call.priorities)]
    /\ UNCHANGED <<options, constraints, result, output, call>>
    /\ UNCHANGED interactive

NextWeights == CalculateWeightedScore

SpecWeights == InitWeights /\ [][NextWeights]_vars

-----------------------------------------------------------------------------
(* evaluate called again on the same options with one priority raised *)

\* Two cloud providers the knowledge base does not know
Name_Cumulus == <<"C","u","m","u","l","u","s">>
Name_Stratus == <<"S","t","r","a","t","u","s">>

Cumulus ==
    Option(Name_Cumulus, "cloud",
           [pricingModel |-> "pay-as-you-go", learningCurve |-> "medium"])

Stratus ==
    Option(Name_Stratus, "cloud",
           [pricingModel |-> "hybrid", learningCurve |-> "high",
            enterpriseFeatures |-> <<"sso", "audit", "sla", "vpc", "iam", "kms",
                                     "backup", "support", "dr", "compliance">>,
            certifications |-> <<"soc2", "iso27001", "hipaa", "pci", "fedramp">>])

PriorityOptionLists == {<<Cumulus, Stratus>>, <<AWS, DigitalOcean>>}

\* Priorities are raised up to this value
MaxRaisedPriority == 3

LowestPriorityConstraints ==
    [NeutralConstraints EXCEPT !.priorities = Priorities(1, 1, 1, 1, 1)]

InitPriority ==
    /\ options \in PriorityOptionLists
    /\ constraints = LowestPriorityConstraints
    /\ result = NoResult
    /\ output = NoOutput
    /\ call = NoCall
    /\ ret = NoReturn
    /\ Constructed

\* ComparisonEngine.evaluate(options, constraints) after the caller has raised
\* the priority `key` by one
ReEvaluate(key) ==
    /\ result.status = "ok"
    /\ constraints.priorities[key] < MaxRaisedPriority
    /\ \E raised \in {[constraints EXCEPT !.priorities[key] = @ + 1]} :
          /\ constraints' = raised
          /\ result' = evaluate(options, raised)
    /\ UNCHANGED <<options, output, call, ret>>
    /\ UNCHANGED interactive

NextPriority == Evaluate \/ \E key \in PriorityKeySet : ReEvaluate(key)

SpecPriority == InitPriority /\ [][NextPriority]_vars

-----------------------------------------------------------------------------
(* Properties of evaluate: score ranges, rankings, option count *)

\* C1: after a successful evaluate every option has a score for each of the six
\* standard criteria, every criterion score lies in 0..100 and so does the
\* normalized score, also where rule bonuses and contextual adjustments pile up
\* on one criterion.
C1_ScoresWithinRange ==
    result.status = "ok" =>
        /\ Len(result.scores) = Len(options)
        /\ \A i \in DOMAIN result.scores :
              /\ DOMAIN result.scores[i].criteriaScores =
                    {"cost", "performance", "scalability", "learningCurve",
                     "vendorLockIn", "maintainability"}
              /\ \A c \in DOMAIN result.scores[i].criteriaScores :
                    result.scores[i].criteriaScores[c] \in 0..100
              /\ result.scores[i].normalizedScore \in 0..100

\* An evaluated option whose knowledge-base score plus contextual adjustment
\* passes 100 on a criterion, and whose score for it is 100
C1_Witness ==
    /\ result.status = "ok"
    /\ \E i \in DOMAIN result.scores :
          LET option == processOption(options[i])
              base == getComprehensiveEvaluation(option)
              adjustments == calculateContextualAdjustments(option, constraints)
          IN  \E c \in DOMAIN adjustments :
                 /\ base[c] + adjustments[c] > 100
                 /\ result.scores[i].criteriaScores[c] = 100

\* C2: the rankings hold every input option exactly once, with ranks 1..N in
\* order, weighted scores that do not increase with the rank, and options of
\* equal weighted score in their input order.
C2_RankingsOrdered ==
    result.status = "ok" =>
        LET rankings == result.rankings
            N == Len(options)
        IN  /\ Len(rankings) = N
            /\ {rankings[r].index : r \in DOMAIN rankings} = 1..N
            /\ \A r \in DOMAIN rankings :
                  /\ rankings[r].rank = r
                  /\ rankings[r].option.name = options[rankings[r].index].name
                  /\ rankings[r].option.category = options[rankings[r].index].category
                  /\ rankings[r].score = result.scores[rankings[r].index].weightedScore
            /\ \A r \in 1..(N - 1) :
                  /\ RGe(rankings[r].score, rankings[r + 1].score)
                  /\ rankings[r].score = rankings[r + 1].score
                        => rankings[r].index < rankings[r + 1].index

\* Three ranked options, two of them with equal weighted scores, and the first
\* input option not ranked first
C2_Witness ==
    /\ result.status = "ok"
    /\ Len(result.rankings) = 3
    /\ result.rankings[1].index # 1
    /\ \E r \in 1..2 : result.rankings[r].score = result.rankings[r + 1].score

\* C3: validateOptionCount reports no error exactly for 2 or 3 options, one
\* OPTIONS_TOO_FEW error for fewer and one OPTIONS_TOO_MANY error for more; and
\* evaluate on a list of another length ends in the error, with no scores and
\* no rankings.
C3_OptionCountEnforced ==
    LET errors == validateOptionCount(options)
        N == Len(options)
    IN  /\ errors = << >> <=> N \in {2, 3}
        /\ N < 2 => errors = <<"OPTIONS_TOO_FEW">>
        /\ N > 3 => errors = <<"OPTIONS_TOO_MANY">>
        /\ (result.status # "none" /\ N \notin {2, 3}) =>
              /\ result.status = "error"
              /\ result.errors = errors
              /\ result.scores = << >>
              /\ result.rankings = << >>

\* evaluate has failed on a list of more than three options
C3_Witness ==
    /\ Len(options) > 3
    /\ result.status = "error"
    /\ result.errors = <<"OPTIONS_TOO_MANY">>

-----------------------------------------------------------------------------
(* Properties of the weighted score *)

\* Ten times the emphasis factor of a raw priority
C4_Factor(priority) ==
    CASE priority = 1 -> 5
      [] priority = 2 -> 8
      [] priority = 3 -> 10
      [] priority = 4 -> 12
      [] priority = 5 -> 15
      [] OTHER -> 10

\* The emphasized priority before the two normalizations, which divide all five
\* by the same number: equal shares when all five priorities are 0
C4_Emphasized(priorities, key) ==
    IF \A k \in DOMAIN priorities : priorities[k] = 0 THEN 1
    ELSE priorities[key] * C4_Factor(priorities[key])

\* Ten times the weight of a criterion, up to the common divisor
C4_Weight(priorities, criterion) ==
    CASE criterion = "cost" -> 10 * C4_Emphasized(priorities, "cost")
      [] criterion = "performance" -> 10 * C4_Emphasized(priorities, "performance")
      [] criterion = "learningCurve" -> 10 * C4_Emphasized(priorities, "easeOfUse")
      [] criterion = "scalability" -> 10 * C4_Emphasized(priorities, "scalability")
      [] criterion = "vendorLockIn" -> 10 * C4_Emphasized(priorities, "vendorLockIn")
      [] criterion = "maintainability" ->
           3 * C4_Emphasized(priorities, "cost")
           + 2 * C4_Emphasized(priorities, "performance")

\* C4: the weighted score is sum(score x weight) / sum(weight) over the criteria
\* present, the weights being the priorities normalized, multiplied by the
\* emphasis factors 0.5, 0.8, 1.0, 1.2, 1.5 of the raw priorities 1..5,
\* normalized again and mapped to the criteria, with maintainability weighted
\* 0.3 x cost weight + 0.2 x performance weight; it is 50 when the weights of
\* the criteria present sum to 0.
C4_WeightedScoreFormula ==
    ret.status = "ok" =>
        LET scores == call.criteriaScores
            weights == [c \in DOMAIN scores |-> C4_Weight(call.priorities, c)]
            weighted == [c \in DOMAIN scores |-> scores[c] * weights[c]]
            totalWeight == SumOver(weights, DOMAIN scores)
        IN  IF totalWeight > 0
            THEN ret.value = Rat(SumOver(weighted, DOMAIN scores), totalWeight)
            ELSE ret.value = RInt(50)

\* A weighted score of six criteria under five different priorities
C4_Witness ==
    /\ ret.status = "ok"
    /\ Cardinality(DOMAIN call.criteriaScores) = 6
    /\ call.priorities = Priorities(5, 4, 3, 2, 1)
    /\ ret.value # RInt(50)

\* The statement that with all priorities 3 the weighted score is the plain
\* average of the six criterion scores
C7_PlainAverage ==
    (/\ ret.status = "ok"
     /\ Cardinality(DOMAIN call.criteriaScores) = 6
     /\ call.priorities = Priorities(3, 3, 3, 3, 3)) =>
        ret.value = Rat(SumOver(call.criteriaScores, DOMAIN call.criteriaScores), 6)

\* C7: with all five priorities 3 the weighted score of six criterion scores is
\* the average in which cost, performance, scalability, learningCurve and
\* vendorLockIn each count 0.2 and maintainability counts 0.1:
\* (2 x (the five scores) + maintainability) / 11.
C7_EqualPriorityAverage ==
    (/\ ret.status = "ok"
     /\ Cardinality(DOMAIN call.criteriaScores) = 6
     /\ call.priorities = Priorities(3, 3, 3, 3, 3)) =>
        LET scores == call.criteriaScores
        IN  ret.value =
               Rat(2 * (scores.cost + scores.performance + scores.scalability
                        + scores.learningCurve + scores.vendorLockIn)
                   + scores.maintainability, 11)

\* A weighted score under priorities 3 that is not the plain average
C7_Witness ==
    /\ ret.status = "ok"
    /\ Cardinality(DOMAIN call.criteriaScores) = 6
    /\ call.priorities = Priorities(3, 3, 3, 3, 3)
    /\ ret.value #
          Rat(SumOver(call.criteriaScores, DOMAIN call.criteriaScores), 6)

-----------------------------------------------------------------------------
(* Properties of the contextual adjustments and of the priorities *)

\* The sum of the deltas of the contextual rules that fire and name the criterion
C5_SumOfDeltas(option, input, criterion) ==
    (IF input.budget = "low" /\ criterion = "cost" THEN 10 ELSE 0)
    + (IF input.budget = "high" /\ criterion = "performance" THEN 5 ELSE 0)
    + (IF input.timeline = "immediate" /\ criterion = "learningCurve" THEN 15 ELSE 0)
    + (IF input.timeline = "long" /\ criterion = "scalability" THEN 10 ELSE 0)
    + (IF input.team.skillLevel = "junior" /\ criterion = "learningCurve" THEN 10 ELSE 0)
    + (IF input.team.skillLevel = "junior" /\ criterion = "maintainability" THEN 5 ELSE 0)
    + (IF input.team.skillLevel = "senior" /\ criterion = "performance" THEN 5 ELSE 0)
    + (IF HasExperienceWith(option, input) /\ criterion = "learningCurve" THEN 20 ELSE 0)
    + (IF HasExperienceWith(option, input) /\ criterion = "maintainability" THEN 10 ELSE 0)
    + (IF (input.scale.users > 100000 \/ input.scale.traffic = "high")
          /\ criterion = "scalability" THEN 15 ELSE 0)
    + (IF (input.scale.users > 100000 \/ input.scale.traffic = "high")
          /\ criterion = "performance" THEN 10 ELSE 0)

\* C5: the score of a criterion after evaluate is the knowledge-base score plus
\* the sum of the deltas of all the contextual rules that fire and name the
\* criterion, clamped to 0..100.
C5_AdjustmentsAddUp ==
    result.status = "ok" =>
        \A i \in DOMAIN result.scores :
            LET option == processOption(options[i])
                base == getComprehensiveEvaluation(option)
            IN  \A c \in DOMAIN base :
                   result.scores[i].criteriaScores[c] =
                      Min(100, Max(0, base[c] + C5_SumOfDeltas(option, constraints, c)))

\* The rank of the option at position i of the input
C6_RankOf(res, i) == CHOOSE r \in DOMAIN res.rankings : res.rankings[r].index = i

\* The criterion tied to a priority
C6_CriterionOf(key) == IF key = "easeOfUse" THEN "learningCurve" ELSE key

\* C6: when evaluate is called again with one priority raised and all else the
\* same, an option with the higher score on the criterion tied to that priority
\* that was ranked above another option does not get a weighted score strictly
\* below the other's.
C6_PriorityMonotone ==
    [][\A key \in PriorityKeySet :
          (/\ result.status = "ok"
           /\ result'.status = "ok"
           /\ options' = options
           /\ constraints' = [constraints EXCEPT !.priorities[key] = @ + 1])
          => \A i, j \in DOMAIN result.scores :
                (/\ result.scores[i].criteriaScores[C6_CriterionOf(key)]
                       > result.scores[j].criteriaScores[C6_CriterionOf(key)]
                 /\ C6_RankOf(result, i) < C6_RankOf(result, j))
                => ~RLt(result'.scores[i].weightedScore,
                        result'.scores[j].weightedScore)]_vars

-----------------------------------------------------------------------------
(* Properties of the trade-off analysis and of the recommendation *)

\* C8: the trade-off analysis holds a compromise for an option and a criterion
\* exactly when the highest score for the criterion among all the other
\* options is more than 20 above the option's.
C8_CompromiseIffGap ==
    result.status = "ok" =>
        \A i \in DOMAIN result.scores :
            \A c \in DOMAIN result.scores[i].criteriaScores :
                (\E k \in DOMAIN result.tradeOffs.compromises :
                    /\ result.tradeOffs.compromises[k].index = i
                    /\ result.tradeOffs.compromises[k].affectedCriteria = <<c>>)
                <=>
                (\E j \in DOMAIN result.scores \ {i} :
                    result.scores[j].criteriaScores[c]
                       - result.scores[i].criteriaScores[c] > 20)

\* The user priority of a criterion that has a priority of its own
C9_PriorityOf(priorities, criterion) ==
    IF criterion = "learningCurve" THEN priorities.easeOfUse ELSE priorities[criterion]

\* C9: the impact label of a compromise depends on the priority of its
\* criterion: high on a criterion of priority 5, low on one of priority 1.
C9_ImpactDependsOnPriority ==
    result.status = "ok" =>
        \A k \in DOMAIN result.tradeOffs.compromises :
            LET compromise == result.tradeOffs.compromises[k]
                criterion == compromise.affectedCriteria[1]
            IN  criterion # "maintainability" =>
                   /\ C9_PriorityOf(constraints.priorities, criterion) = 5
                         => compromise.impact = "high"
                   /\ C9_PriorityOf(constraints.priorities, criterion) = 1
                         => compromise.impact = "low"

\* C10: the confidence of a recommendation lies within 0.1 and 1.0.
C10_ConfidenceWithinRange ==
    output.status = "ok" =>
        /\ RLe(Rat(1, 10), output.confidence)
        /\ RLe(output.confidence, RInt(1))

\* A recommendation whose base value 0.9, alignment adjustment and consistency
\* bonus add up to more than 1, and whose confidence is 1
C10_Witness ==
    /\ output.status = "ok"
    /\ output.confidence = RInt(1)
    /\ LET top == FindScoreByName(result, result.rankings[1].option.name)
       IN  /\ top # 0
           /\ BaseConfidence(RSub(result.rankings[1].score, result.rankings[2].score))
                 = Rat(9, 10)
           /\ RGe(calculatePriorityAlignment(result.scores[top], constraints), Rat(5, 10))
           /\ RGt(calculateConsistencyBonus(result), Rat(1, 10))

-----------------------------------------------------------------------------
(* generateComparison called on evaluation results built by the caller *)

\* The rank-1 and rank-2 scores of the results
MockScorePairs == {<<90, 55>>, <<78, 77>>}

\* The criterion scores of the rank-1 option
MockTopScores == [CriteriaSet -> {0, 1, 78, 100}]

MockPriorities ==
    {Priorities(3, 3, 3, 3, 3), Priorities(5, 1, 5, 1, 1), Priorities(1, 5, 1, 5, 1)}

\* An EvaluationResult of AWS ranked first and DigitalOcean second
MockResult(topScores, pair) ==
    LET scores ==
            << [option |-> AWS, criteriaScores |-> topScores,
                weightedScore |-> RInt(pair[1]), normalizedScore |-> pair[1]],
               [option |-> DigitalOcean,
                criteriaScores |-> [c \in CriteriaSet |-> NeutralScore],
                weightedScore |-> RInt(pair[2]), normalizedScore |-> pair[2]] >>
    IN  [status |-> "ok", errors |-> << >>, scores |-> scores,
         rankings |-> [r \in 1..2 |->
                          [option |-> scores[r].option, index |-> r, rank |-> r,
                           score |-> scores[r].weightedScore]],
         tradeOffs |-> NoTradeOffs]

InitConfidence ==
    /\ options = <<AWS, DigitalOcean>>
    /\ constraints \in {[NeutralConstraints EXCEPT !.priorities = p] : p \in MockPriorities}
    /\ result \in {MockResult(s, pair) : s \in MockTopScores, pair \in MockScorePairs}
    /\ output = NoOutput
    /\ call = NoCall
    /\ ret = NoReturn
    /\ Constructed

NextConfidence == GenerateComparison

SpecConfidence == InitConfidence /\ [][NextConfidence]_vars

\* The score gap of the result the recommendation was made for
C11_ScoreGap == RSub(result.rankings[1].score, result.rankings[2].score)

\* The statement that a gap of 35 gives a confidence of at least 0.85 and a gap
\* of 1 a confidence of at most 0.5
C11_ConfidenceExamples ==
    output.status = "ok" =>
        /\ C11_ScoreGap = RInt(35) => RGe(output.confidence, Rat(85, 100))
        /\ C11_ScoreGap = RInt(1) => RLe(output.confidence, Rat(5, 10))

\* C11: for rank-1 and rank-2 scores 90 and 55 the confidence is at least 0.8,
\* and for 78 and 77 it is at most 0.7, whatever the criterion scores of the
\* top option and the priorities.
C11_ConfidenceBounds ==
    output.status = "ok" =>
        /\ C11_ScoreGap = RInt(35) => RGe(output.confidence, Rat(8, 10))
        /\ C11_ScoreGap = RInt(1) => RLe(output.confidence, Rat(7, 10))

\* A recommendation for scores 78 and 77 with a confidence above 0.5
C11_Witness ==
    /\ output.status = "ok"
    /\ C11_ScoreGap = RInt(1)
    /\ RGt(output.confidence, Rat(5, 10))

-----------------------------------------------------------------------------
(* The knowledge base and processOptions called on single options *)

Name_PostgreSQL == <<"P","o","s","t","g","r","e","S","Q","L">>

\* The knowledge base is not behind the validation of the engine: it is also
\* called on options whose name is undefined
KnowledgeNames == {Name_AWS, Name_Nimbus, Name_Django, Name_PostgreSQL, Undefined}

\* "mobile" is not a category of core.ts: validation only warns about it
KnowledgeCategories == {"cloud", "backend", "database", "frontend", "mobile"}

\* Metadata of every category, complete, partial and empty
KnowledgeMetadata ==
    { << >>,
      AWS.metadata,
      [pricingModel |-> "reserved", customField |-> "custom value"],
      Django.metadata,
      [type |-> "document", schemaFlexibility |-> "schemaless",
       queryComplexity |-> "simple", acidCompliance |-> TRUE,
       performanceRating |-> 9],
      [pricingModel |-> "pay-as-you-go", learningCurve |-> "low",
       performanceRating |-> 10, acidCompliance |-> TRUE,
       developmentSpeed |-> 9, serviceCount |-> 500] }

KnowledgeOptions ==
    {Option(n, c, m) : n \in KnowledgeNames, c \in KnowledgeCategories,
                       m \in KnowledgeMetadata}
    \cup {[name |-> n, category |-> c, hasMetadata |-> FALSE, metadata |-> << >>] :
             n \in KnowledgeNames, c \in KnowledgeCategories}

\* `call` holds the option a method is called on, `ret` the method and what it
\* returned
InitKnowledge ==
    /\ options = << >>
    /\ constraints = NeutralConstraints
    /\ result = NoResult
    /\ output = NoOutput
    /\ call \in {[option |-> o] : o \in KnowledgeOptions}
    /\ ret = NoReturn
    /\ Constructed

EvaluateOption ==
    /\ ret.status = "none"
    /\ ret' = [status |-> "ok", op |-> "evaluateOption",
               value |-> evaluateOption(call.option)]
    /\ UNCHANGED <<options, constraints, result, output, call>>
    /\ UNCHANGED interactive

GetComprehensiveEvaluation ==
    /\ ret.status = "none"
    /\ ret' = [status |-> "ok", op |-> "getComprehensiveEvaluation",
               value |-> getComprehensiveEvaluation(call.option)]
    /\ UNCHANGED <<options, constraints, result, output, call>>
    /\ UNCHANGED interactive

ProcessOptions ==
    /\ ret.status = "none"
    /\ ret' = IF processOptionsThrows(<<call.option>>)
               THEN [status |-> "thrown", op |-> "processOptions", value |-> << >>]
               ELSE [status |-> "ok", op |-> "processOptions",
                     value |-> processOptions(<<call.option>>)]
    /\ UNCHANGED <<options, constraints, result, output, call>>
    /\ UNCHANGED interactive

NextKnowledge == EvaluateOption \/ GetComprehensiveEvaluation \/ ProcessOptions

SpecKnowledge == InitKnowledge /\ [][NextKnowledge]_vars

\* C12: an option whose category has no domain knowledge scores exactly 50 on
\* each of the six criteria, from evaluateOption and after the scoring rules,
\* whatever its metadata; the evaluation returns.
C12_GenericScoresNeutral ==
    /\ ret.status = "ok"
    /\ ret.op \in {"evaluateOption", "getComprehensiveEvaluation"}
    /\ call.option.category \notin {"cloud", "backend", "database"}
    => /\ DOMAIN ret.value = {"cost", "performance", "scalability",
                              "learningCurve", "vendorLockIn", "maintainability"}
       /\ \A c \in DOMAIN ret.value : ret.value[c] = 50

\* A mobile option with pay-as-you-go pricing was evaluated with the rules
C12_Witness ==
    /\ ret.status = "ok"
    /\ ret.op = "getComprehensiveEvaluation"
    /\ call.option.category = "mobile"
    /\ call.option.hasMetadata
    /\ "pricingModel" \in DOMAIN call.option.metadata
    /\ call.option.metadata["pricingModel"] = "pay-as-you-go"

\* The option of the call under a name that is a string
C13_Named == [call.option EXCEPT !.name = Name_Nimbus]

\* The criteria whose scoring function reads the name of a database option
C13_Failing == {"cost", "vendorLockIn"}

\* C13: a scoring function that throws is caught: its criterion scores 50, the
\* other criteria and the scoring rules are evaluated as for an option on which
\* nothing throws, and the evaluation returns all six scores.
C13_ScoringErrorsNeutral ==
    /\ ret.status # "none"
    /\ ret.op \in {"evaluateOption", "getComprehensiveEvaluation"}
    /\ call.option.name = Undefined
    /\ call.option.category = "database"
    /\ call.option.hasMetadata
    => /\ ret.status = "ok"
       /\ DOMAIN ret.value = {"cost", "performance", "scalability",
                              "learningCurve", "vendorLockIn", "maintainability"}
       /\ \A c \in C13_Failing : ret.value[c] = 50
       /\ \A c \in DOMAIN ret.value \ C13_Failing :
             ret.value[c] = IF ret.op = "evaluateOption"
                            THEN evaluateOption(C13_Named)[c]
                            ELSE getComprehensiveEvaluation(C13_Named)[c]

\* A database without a name was evaluated: a rule raised maintainability
\* above what its scoring function gave
C13_Witness ==
    /\ ret.status = "ok"
    /\ ret.op = "getComprehensiveEvaluation"
    /\ call.option.name = Undefined
    /\ call.option.category = "database"
    /\ call.option.hasMetadata
    /\ ret.value["cost"] = 50
    /\ ret.value["maintainability"] > scoreDatabaseMaintainability(call.option)

-----------------------------------------------------------------------------
(* validateTechnicalOptions called on lists of backend options *)

Name_Node == <<"N","o","d","e">>
Name_node == <<"n","o","d","e">>
Name_NodeJs == <<"N","o","d","e","-","j","s">>

\* "js-backend" is not a category of core.ts: validation only warns about it
ValidationOptions ==
    {Option(n, c, << >>) : n \in {Name_Node, Name_node, Name_NodeJs},
                           c \in {"backend", "js-backend"}}

ValidationLists ==
    UNION {SeqsOf(ValidationOptions, n) : n \in 0..(MaxOptions + MaxExtraOptions)}

\* `call` holds the list validated, `ret` the error codes reported
InitValidation ==
    /\ options = << >>
    /\ constraints = NeutralConstraints
    /\ result = NoResult
    /\ output = NoOutput
    /\ call \in {[options |-> l] : l \in ValidationLists}
    /\ ret = NoReturn
    /\ Constructed

ValidateTechnicalOptions ==
    /\ ret.status = "none"
    /\ ret' = [status |-> "ok", op |-> "validateTechnicalOptions",
               value |-> validateTechnicalOptions(call.options)]
    /\ UNCHANGED <<options, constraints, result, output, call>>
    /\ UNCHANGED interactive

NextValidation == ValidateTechnicalOptions

SpecValidation == InitValidation /\ [][NextValidation]_vars

\* Two options of the validated list have names equal ignoring case and the
\* same category
C14_SameNameAndCategory ==
    \E i, j \in DOMAIN call.options :
        /\ i < j
        /\ ToLowerCase(call.options[i].name) = ToLowerCase(call.options[j].name)
        /\ call.options[i].category = call.options[j].category

\* C14: on a list of two or three options OPTION_DUPLICATE is reported exactly
\* when two options have names equal ignoring case and the same category.
C14_DuplicateIffSameNameAndCategory ==
    /\ ret.status = "ok"
    /\ ret.op = "validateTechnicalOptions"
    /\ Len(call.options) \in MinOptions..MaxOptions
    => ((\E k \in DOMAIN ret.value : ret.value[k] = "OPTION_DUPLICATE")
            <=> C14_SameNameAndCategory)

\* The attributes of the fallback metadata of a category
C15_DefaultAttributes(category) ==
    CASE category = "cloud" ->
           {"name", "pricingModel", "serviceCount", "enterpriseFeatures",
            "learningCurve", "marketShare", "regions", "certifications"}
      [] category = "backend" ->
           {"name", "language", "developmentSpeed", "communitySize",
            "enterpriseAdoption", "performanceRating", "learningCurve",
            "packageEcosystem"}
      [] category = "database" ->
           {"name", "type", "schemaFlexibility", "queryComplexity",
            "horizontalScaling", "consistencyModel", "acidCompliance",
            "performanceRating"}

\* C15: after processOptions every cloud, backend and database option carries
\* a value for every attribute of the fallback metadata of its category.
C15_DefaultsComplete ==
    /\ ret.status = "ok"
    /\ ret.op = "processOptions"
    /\ call.option.category \in {"cloud", "backend", "database"}
    => /\ ret.value[1].hasMetadata
       /\ C15_DefaultAttributes(call.option.category) \subseteq DOMAIN ret.value[1].metadata

\* The names the knowledge base knows among those of the options processed
C16_Known ==
    \/ call.option.category = "cloud" /\ call.option.name = Name_AWS
    \/ call.option.category = "backend" /\ call.option.name = Name_Django
    \/ call.option.category = "database" /\ call.option.name = Name_PostgreSQL

\* The defaults of the categories, as getFallbackMetadata lists them
C16_Defaults ==
    CASE call.option.category = "cloud" ->
           [name |-> "Unknown Cloud Provider", pricingModel |-> "pay-as-you-go",
            serviceCount |-> 50, enterpriseFeatures |-> << >>,
            learningCurve |-> "medium", marketShare |-> 5, regions |-> 5,
            certifications |-> << >>]
      [] call.option.category = "backend" ->
           [name |-> "Unknown Backend Framework", language |-> "unknown",
            developmentSpeed |-> 5, communitySize |-> 10000,
            enterpriseAdoption |-> 5, performanceRating |-> 5,
            learningCurve |-> "medium", packageEcosystem |-> 10000]
      [] call.option.category = "database" ->
           [name |-> "Unknown Database", type |-> "relational",
            schemaFlexibility |-> "rigid", queryComplexity |-> "moderate",
            horizontalScaling |-> "good", consistencyModel |-> "strong",
            acidCompliance |-> TRUE, performanceRating |-> 5]
      [] OTHER -> << >>

\* C16: processOptions returns a known technology unchanged; any other option
\* keeps its name and category, and its metadata are the defaults of the
\* category with the option's own attributes in place of the defaults.
C16_KnownUnchangedElseMerged ==
    /\ ret.status = "ok"
    /\ ret.op = "processOptions"
    => /\ Len(ret.value) = 1
       /\ C16_Known => ret.value[1] = call.option
       /\ ~C16_Known =>
            LET own == call.option.metadata
                processed == ret.value[1]
            IN  /\ processed.name = call.option.name
                /\ processed.category = call.option.category
                /\ DOMAIN processed.metadata = DOMAIN C16_Defaults \cup DOMAIN own
                /\ \A k \in DOMAIN own : processed.metadata[k] = own[k]
                /\ \A k \in DOMAIN C16_Defaults \ DOMAIN own :
                      processed.metadata[k] = C16_Defaults[k]

\* An unknown cloud option with reserved pricing and a custom field was
\* processed: its own pricing model stands, the service count is the default
C16_Witness ==
    /\ ret.status = "ok"
    /\ ret.op = "processOptions"
    /\ call.option.name = Name_Nimbus
    /\ call.option.category = "cloud"
    /\ call.option.metadata = [pricingModel |-> "reserved", customField |-> "custom value"]
    /\ ret.value[1].metadata["pricingModel"] = "reserved"
    /\ ret.value[1].metadata["serviceCount"] = 50

-----------------------------------------------------------------------------
(* applyContextualAdjustments called again on the records it was passed *)

\* The number of calls on the same records
MaxAdjustCalls == 2

\* `call` holds the records and the constraints of the calls, `ret` what the
\* last call returned and the number of calls made
InitAdjust ==
    /\ options = << >>
    /\ constraints = NeutralConstraints
    /\ result = NoResult
    /\ output = NoOutput
    /\ call \in {[scores |-> calculateScores(processOptions(l), c), constraints |-> c] :
                    l \in ContextOptionLists, c \in ContextConstraints}
    /\ ret = [status |-> "none", value |-> << >>, calls |-> 0]
    /\ Constructed

ApplyContextualAdjustments ==
    /\ ret.calls < MaxAdjustCalls
    /\ \E returned \in {applyContextualAdjustments(call.scores, call.constraints)} :
          /\ ret' = [status |-> "ok", value |-> returned, calls |-> ret.calls + 1]
          /\ call' = [call EXCEPT !.scores = SharedCriteriaScores(call.scores, returned)]
    /\ UNCHANGED <<options, constraints, result, output>>
    /\ UNCHANGED interactive

NextAdjust == ApplyContextualAdjustments

SpecAdjust == InitAdjust /\ [][NextAdjust]_vars

\* C17: a call of applyContextualAdjustments leaves the records passed to it
\* as they were, and a further call on the same records returns what the call
\* before it returned.
C17_RecordsNotMutated ==
    [][/\ call'.scores = call.scores
       /\ ret.calls >= 1 => ret'.value = ret.value]_vars

-----------------------------------------------------------------------------
(* Properties of the priority-emphasis scenario and of the trade-off analysis *)

\* The metadata of AWS and DigitalOcean with pay-as-you-go pricing for both
C18_PayAsYouGoPair ==
    /\ Len(options) = 2
    /\ \E i, j \in 1..2 :
          /\ options[i].name = Name_AWS /\ options[i].category = "cloud"
          /\ options[i].metadata =
                [pricingModel |-> "pay-as-you-go", marketShare |-> 32,
                 serviceCount |-> 200, learningCurve |-> "high", regions |-> 25]
          /\ options[j].name = Name_DigitalOcean /\ options[j].category = "cloud"
          /\ options[j].metadata =
                [pricingModel |-> "pay-as-you-go", marketShare |-> 3,
                 serviceCount |-> 50, learningCurve |-> "low", regions |-> 8]

\* The same pair with reserved pricing for AWS
C18_ReservedPair ==
    /\ Len(options) = 2
    /\ \E i, j \in 1..2 :
          /\ options[i].name = Name_AWS /\ options[i].category = "cloud"
          /\ options[i].metadata =
                [pricingModel |-> "reserved", marketShare |-> 32,
                 serviceCount |-> 200, learningCurve |-> "high", regions |-> 25]
          /\ options[j].name = Name_DigitalOcean /\ options[j].category = "cloud"
          /\ options[j].metadata =
                [pricingModel |-> "pay-as-you-go", marketShare |-> 3,
                 serviceCount |-> 50, learningCurve |-> "low", regions |-> 8]

C18_CostFocused ==
    constraints =
        [budget |-> "low", scale |-> [users |-> 100, traffic |-> "low"],
         team |-> [skillLevel |-> "junior", experience |-> << >>],
         timeline |-> "immediate",
         priorities |-> [cost |-> 5, performance |-> 1, easeOfUse |-> 5,
                         scalability |-> 1, vendorLockIn |-> 1]]

C18_PerformanceFocused ==
    constraints =
        [budget |-> "high", scale |-> [users |-> 100000, traffic |-> "high"],
         team |-> [skillLevel |-> "senior", experience |-> <<Name_AWS>>],
         timeline |-> "long",
         priorities |-> [cost |-> 1, performance |-> 5, easeOfUse |-> 1,
                         scalability |-> 5, vendorLockIn |-> 1]]

\* The statement that, with pay-as-you-go pricing for both, the cost-focused
\* constraints rank DigitalOcean first and the performance-focused ones AWS
C18_PayAsYouGoRanking ==
    result.status = "ok" /\ C18_PayAsYouGoPair =>
        /\ C18_CostFocused => result.rankings[1].option.name = Name_DigitalOcean
        /\ C18_PerformanceFocused => result.rankings[1].option.name = Name_AWS

\* C18: with reserved pricing for AWS (pay-as-you-go for DigitalOcean) the
\* cost-focused constraints rank DigitalOcean first and the
\* performance-focused constraints rank AWS first; with pay-as-you-go pricing
\* for both, AWS ranks first under both.
C18_EmphasisRanking ==
    result.status = "ok" =>
        /\ C18_ReservedPair /\ C18_CostFocused =>
              result.rankings[1].option.name = Name_DigitalOcean
        /\ C18_ReservedPair /\ C18_PerformanceFocused =>
              result.rankings[1].option.name = Name_AWS
        /\ C18_PayAsYouGoPair /\ (C18_CostFocused \/ C18_PerformanceFocused) =>
              result.rankings[1].option.name = Name_AWS

\* The cost-focused evaluation of the pair with reserved pricing for AWS, AWS
\* first in the input, ranked DigitalOcean first
C18_Witness ==
    /\ result.status = "ok"
    /\ C18_ReservedPair
    /\ C18_CostFocused
    /\ options[1].name = Name_AWS
    /\ result.rankings[1].option.name = Name_DigitalOcean
    /\ result.rankings[1].rank = 1

\* The adjusted score of option i of the result on criterion c
C19_Score(i, c) == result.scores[i].criteriaScores[c]

\* C19: for every criterion the strongest option has the highest adjusted
\* score of the options and the weakest option the lowest, and each is the
\* first option in input order with that score.
C19_StrongestAndWeakest ==
    result.status = "ok" =>
        /\ DOMAIN result.tradeOffs.strongestOption =
              {"cost", "performance", "scalability", "learningCurve",
               "vendorLockIn", "maintainability"}
        /\ DOMAIN result.tradeOffs.weakestOption = DOMAIN result.tradeOffs.strongestOption
        /\ \A c \in DOMAIN result.tradeOffs.strongestOption :
              LET s == result.tradeOffs.strongestOption[c]
                  w == result.tradeOffs.weakestOption[c]
              IN  /\ s \in DOMAIN result.scores
                  /\ w \in DOMAIN result.scores
                  /\ \A j \in DOMAIN result.scores :
                        /\ C19_Score(j, c) <= C19_Score(s, c)
                        /\ C19_Score(j, c) >= C19_Score(w, c)
                        /\ j < s => C19_Score(j, c) < C19_Score(s, c)
                        /\ j < w => C19_Score(j, c) > C19_Score(w, c)

\* Three options of which the second and the third tie for the highest cost
\* score and the second is the strongest
C19_Witness ==
    /\ result.status = "ok"
    /\ Len(result.scores) = 3
    /\ C19_Score(2, "cost") = C19_Score(3, "cost")
    /\ C19_Score(1, "cost") < C19_Score(2, "cost")
    /\ result.tradeOffs.strongestOption["cost"] = 2
    /\ result.tradeOffs.weakestOption["cost"] = 1

-----------------------------------------------------------------------------
(* generateComparison called on results of one and of several ranked options *)

\* A known technology passed without metadata: processOptions leaves it so
AWSWithoutMetadata ==
    [name |-> Name_AWS, category |-> "cloud", hasMetadata |-> FALSE,
     metadata |-> << >>]

ScenarioOptionLists ==
    ContextOptionLists \cup FixtureOptionLists
    \cup {<<Stratus, Cumulus>>, <<AWS, AWSDatabase>>, <<Nimbus, Django, Stratus>>,
          <<AWSWithoutMetadata, DigitalOcean>>}

\* Constraints on both sides of every guard of the scenario generators
AlternativeConstraints ==
    {Constraints(b, u, "medium", sk, << >>, tl, pr) :
        b \in {"low", "medium"},
        u \in {ScenarioUsersThreshold, ScenarioUsersThreshold + 1},
        sk \in {"junior", "senior"},
        tl \in {"immediate", "long"},
        pr \in {Priorities(3, 3, 3, 3, 3), Priorities(5, 1, 5, 1, 1),
                Priorities(1, 5, 1, 5, 1)}}

\* The result cut down to its top-ranked option: an EvaluationResult of a
\* single ranked option, as a caller of the output generator builds it
TopOnly(res) ==
    [status |-> "ok", errors |-> << >>,
     scores |-> <<res.scores[res.rankings[1].index]>>,
     rankings |-> <<[res.rankings[1] EXCEPT !.index = 1]>>,
     tradeOffs |-> NoTradeOffs]

InitScenarios ==
    /\ \E l \in ScenarioOptionLists, c \in AlternativeConstraints :
          \E evaluated \in {evaluate(l, c)} :
             /\ options = l
             /\ constraints = c
             /\ result \in {evaluated, TopOnly(evaluated)}
    /\ output = NoOutput
    /\ call = NoCall
    /\ ret = NoReturn
    /\ Constructed

NextScenarios == GenerateComparison

SpecScenarios == InitScenarios /\ [][NextScenarios]_vars

\* The generator a scenario text belongs to: 1 priority-based, 2 context-based,
\* 3 scale-based
C20_Kind(text) ==
    IF text \in {"If cost optimization becomes your top priority",
                 "If maximum performance becomes your top priority",
                 "If ease of implementation becomes your top priority",
                 "If future scalability becomes your top priority",
                 "If vendor independence becomes your top priority"} THEN 1
    ELSE IF text \in {"If budget becomes a primary concern",
                      "If you need immediate deployment",
                      "If your team has strong technical expertise"} THEN 2
    ELSE 3

\* C20: the alternative scenarios are at most 4, priority-based before
\* context-based before scale-based; each recommends an option of the result
\* that is not the top-ranked option; there is none for a result of fewer than
\* 2 ranked options.
C20_ScenariosLimitedOrderedAlternative ==
    output.status = "ok" =>
        LET scenarios == output.alternativeScenarios
        IN  /\ Len(scenarios) <= 4
            /\ \A i, j \in DOMAIN scenarios :
                  i < j => C20_Kind(scenarios[i].scenario) <= C20_Kind(scenarios[j].scenario)
            /\ \A i \in DOMAIN scenarios :
                  /\ scenarios[i].recommendedOption \in DOMAIN result.scores
                  /\ scenarios[i].recommendedOption # result.rankings[1].index
                  /\ result.scores[scenarios[i].recommendedOption].option
                        # result.rankings[1].option
            /\ Len(result.rankings) < 2 => scenarios = << >>

\* Four scenarios were returned where the generators gave more, of all three
\* kinds
C20_Witness ==
    /\ output.status = "ok"
    /\ Len(output.alternativeScenarios) = 4
    /\ Len(generateAlternativeScenariosUnlimited(result, constraints)) > 4
    /\ C20_Kind(output.alternativeScenarios[1].scenario) = 1
    /\ \E i \in 2..4 : C20_Kind(output.alternativeScenarios[i].scenario) = 2

-----------------------------------------------------------------------------
(* Constraint collector: validation and sanitization *)

\* An optional member of an object is a key of the function that models the
\* object (Has): `undefined` is the absence of the key.  An empty string is
\* falsy.

\* {...a, ...b}
Spread(a, b) ==
    [key \in DOMAIN a \cup DOMAIN b |-> IF key \in DOMAIN b THEN b[key] ELSE a[key]]

\* A ValidationError without its message.  `field` is the dotted path of the
\* code as a sequence: 'scale.users' is <<"scale", "users">>.
ValidationError(field, code) == [field |-> field, code |-> code]

BudgetLevels == {"low", "medium", "high"}
TrafficLevels == {"low", "medium", "high"}
SkillLevels == {"junior", "mixed", "senior"}
Timelines == {"immediate", "short", "medium", "long"}

validateBudget(budget) ==
    IF budget = "" THEN <<ValidationError(<<"budget">>, "BUDGET_REQUIRED")>>
    ELSE IF budget \notin BudgetLevels
         THEN <<ValidationError(<<"budget">>, "BUDGET_INVALID")>>
         ELSE << >>

validateScale(scale) ==
    (IF ~Has(scale, "users")
     THEN <<ValidationError(<<"scale", "users">>, "USERS_INVALID_TYPE")>>
     ELSE IF scale.users < 0
          THEN <<ValidationError(<<"scale", "users">>, "USERS_NEGATIVE")>>
          ELSE << >>)
    \o
    (IF ~Has(scale, "traffic") \/ scale.traffic = ""
     THEN <<ValidationError(<<"scale", "traffic">>, "TRAFFIC_REQUIRED")>>
     ELSE IF scale.traffic \notin TrafficLevels
          THEN <<ValidationError(<<"scale", "traffic">>, "TRAFFIC_INVALID")>>
          ELSE << >>)

\* The errors of the experience entries from position i on
RECURSIVE ExperienceErrorsFrom(_, _)
ExperienceErrorsFrom(experience, i) ==
    IF i > Len(experience) THEN << >>
    ELSE (IF Trim(experience[i]) = << >>
          THEN <<ValidationError(<<"team", "experience[" \o ToString(i - 1) \o "]">>,
                                 "EXPERIENCE_ENTRY_INVALID")>>
          ELSE << >>)
         \o ExperienceErrorsFrom(experience, i + 1)

validateTeam(team) ==
    (IF ~Has(team, "skillLevel") \/ team.skillLevel = ""
     THEN <<ValidationError(<<"team", "skillLevel">>, "SKILL_LEVEL_REQUIRED")>>
     ELSE IF team.skillLevel \notin SkillLevels
          THEN <<ValidationError(<<"team", "skillLevel">>, "SKILL_LEVEL_INVALID")>>
          ELSE << >>)
    \o
    (IF ~Has(team, "experience")
     THEN <<ValidationError(<<"team", "experience">>, "EXPERIENCE_INVALID_TYPE")>>
     ELSE ExperienceErrorsFrom(team.experience, 1))

validateTimeline(timeline) ==
    IF timeline = "" THEN <<ValidationError(<<"timeline">>, "TIMELINE_REQUIRED")>>
    ELSE IF timeline \notin Timelines
         THEN <<ValidationError(<<"timeline">>, "TIMELINE_INVALID")>>
         ELSE << >>

MinPriority == 1
MaxPriority == 5

\* The errors of the required priorities from position i of PriorityKeys on
RECURSIVE PriorityErrorsFrom(_, _)
PriorityErrorsFrom(priorities, i) ==
    IF i > Len(PriorityKeys) THEN << >>
    ELSE LET priority == PriorityKeys[i]
         IN  (IF ~Has(priorities, priority)
              THEN <<ValidationError(<<"priorities", priority>>, "PRIORITY_INVALID_TYPE")>>
              ELSE IF priorities[priority] < MinPriority \/ priorities[priority] > MaxPriority
                   THEN <<ValidationError(<<"priorities", priority>>,
                                          "PRIORITY_OUT_OF_RANGE")>>
                   ELSE << >>)
             \o PriorityErrorsFrom(priorities, i + 1)

validatePriorities(priorities) == PriorityErrorsFrom(priorities, 1)

\* The errors of the ValidationResult; isValid is `errors = << >>`.  The
\* warnings are texts for the user and are left out.
validateConstraints(input) ==
    validateBudget(input.budget) \o validateScale(input.scale)
    \o validateTeam(input.team) \o validateTimeline(input.timeline)
    \o validatePriorities(input.priorities)

DangerousChars == {"<", ">", "\"", "'", "&"}

MaxSanitizedLength == 100

\* String.prototype.substring(0, n)
Substring(s, n) == IF Len(s) <= n THEN s ELSE SubSeq(s, 1, n)

\* sanitizeInput on a string without the trim
sanitizeInputUntrimmed(input) ==
    Substring(SelectSeq(input, LAMBDA c : c \notin DangerousChars), MaxSanitizedLength)

\* sanitizeInput on a string: the dangerous characters removed, then trimmed,
\* then cut to MaxSanitizedLength characters
sanitizeInput(input) ==
    Substring(Trim(SelectSeq(input, LAMBDA c : c \notin DangerousChars)),
              MaxSanitizedLength)

\* sanitizeInput on an array of strings
sanitizeInputArray(input) == [i \in DOMAIN input |-> sanitizeInput(input[i])]

-----------------------------------------------------------------------------
(* Constraint update manager *)

Null == [status |-> "null"]

GroupKeys == {"scale", "team", "priorities"}
SimpleKeys == {"budget", "timeline"}

\* A group of the current constraints, {} where there is none
GroupOf(current, key) == IF Has(current, key) THEN current[key] ELSE << >>

\* mergeConstraints with the priorities of the update spread over the medium
\* priority 3 instead of over the current priorities
mergeConstraintsOverDefaults(current, updates) ==
    [key \in DOMAIN current \cup (DOMAIN updates \cap (GroupKeys \cup SimpleKeys)) |->
        IF Has(updates, key)
        THEN (IF key = "priorities"
              THEN Spread(Priorities(3, 3, 3, 3, 3), updates[key])
              ELSE IF key \in GroupKeys
                   THEN Spread(GroupOf(current, key), updates[key])
                   ELSE updates[key])
        ELSE current[key]]

\* {...current} with every group the updates hold spread over the current
\* group, and budget and timeline replaced where the updates define them
mergeConstraints(current, updates) ==
    [key \in DOMAIN current \cup (DOMAIN updates \cap (GroupKeys \cup SimpleKeys)) |->
        IF Has(updates, key)
        THEN (IF key \in GroupKeys
              THEN Spread(GroupOf(current, key), updates[key])
              ELSE updates[key])
        ELSE current[key]]

\* validateConstraintUpdates validating the current constraints instead of the
\* merged ones
validateConstraintUpdatesCurrentOnly(currentConstraints, updates) ==
    validateConstraints(currentConstraints)

\* The errors of validating the merged constraints; the impact warnings the
\* code adds are texts for the user and are left out
validateConstraintUpdates(currentConstraints, updates) ==
    validateConstraints(mergeConstraints(currentConstraints, updates))

\* The fields of one group the updates define, in the order of `members`
GroupFields(updates, group, members) ==
    IF Has(updates, group)
    THEN SelectSeq([i \in DOMAIN members |-> <<group, members[i]>>],
                   LAMBDA field : Has(updates[group], field[2]))
    ELSE << >>

\* Dotted paths as sequences.  Object.keys(updates.priorities) lists the keys
\* in the order the caller wrote them; the model lists them in the order of
\* PriorityKeys.
getModifiedFields(updates) ==
    (IF Has(updates, "budget") THEN << <<"budget">> >> ELSE << >>)
    \o (IF Has(updates, "timeline") THEN << <<"timeline">> >> ELSE << >>)
    \o GroupFields(updates, "scale", <<"users", "traffic">>)
    \o GroupFields(updates, "team", <<"skillLevel", "experience">>)
    \o GroupFields(updates, "priorities", PriorityKeys)

extractPreviousValues(input, modifiedFields) ==
    LET fields == {modifiedFields[i] : i \in DOMAIN modifiedFields}
        members(group) ==
            {field[2] : field \in {f \in fields : Len(f) = 2 /\ f[1] = group}}
    IN  [key \in {field[1] : field \in fields} |->
            IF key \in SimpleKeys THEN input[key]
            ELSE [member \in members(key) \cap DOMAIN input[key] |->
                     input[key][member]]]

\* this.modificationHistory.get(sessionId) || []
HistoryOf(history, sessionId) ==
    IF sessionId \in DOMAIN history THEN history[sessionId] ELSE << >>

\* A ConstraintModification whose previous values are read after the merge
ConstraintModificationAfterMerge(previousConstraints, updates) ==
    LET modifiedFields == getModifiedFields(updates)
    IN  [modifiedFields |-> modifiedFields,
         previousValues |->
             extractPreviousValues(mergeConstraints(previousConstraints, updates),
                                   modifiedFields),
         newValues |-> updates]

\* A ConstraintModification without its timestamp
ConstraintModification(previousConstraints, updates) ==
    LET modifiedFields == getModifiedFields(updates)
    IN  [modifiedFields |-> modifiedFields,
         previousValues |-> extractPreviousValues(previousConstraints, modifiedFields),
         newValues |-> updates]

\* The modification history after recordModification
recordModification(history, sessionId, previousConstraints, updates) ==
    [id \in DOMAIN history \cup {sessionId} |->
        IF id = sessionId
        THEN Append(HistoryOf(history, sessionId),
                    ConstraintModification(previousConstraints, updates))
        ELSE history[id]]

\* A ConstraintUpdateResult without its warnings and changesSummary
ConstraintUpdateResult(success, updatedConstraints, evaluationResult, errors) ==
    [success |-> success, updatedConstraints |-> updatedConstraints,
     evaluationResult |-> evaluationResult, errors |-> errors]

\* The outcome of the re-evaluation: Null where the session holds fewer than two
\* options and no evaluation runs
Reevaluate(session, updatedConstraints) ==
    IF Len(session.selectedOptions) >= 2
    THEN evaluate(session.selectedOptions, updatedConstraints)
    ELSE Null

\* The part of updateConstraints behind the validation.  The modification is
\* recorded and the merged constraints are stored before the re-evaluation,
\* whose outcome is `evaluated`; an evaluation that throws is caught.
ApplyUpdates(sessionMap, history, sessionId, updates, updatedConstraints, evaluated) ==
    LET recorded ==
            recordModification(history, sessionId,
                               sessionMap[sessionId].constraints, updates)
        failed == evaluated # Null /\ evaluated.status # "ok"
    IN  [sessions |->
            [sessionMap EXCEPT
                ![sessionId].constraints = updatedConstraints,
                ![sessionId].evaluationHistory =
                    IF evaluated = Null \/ failed THEN @ ELSE Append(@, evaluated)],
         modificationHistory |-> recorded,
         result |->
            IF failed
            THEN ConstraintUpdateResult(FALSE, updatedConstraints, Null,
                     <<ValidationError(<<"evaluation">>, "EVALUATION_FAILED")>>)
            ELSE ConstraintUpdateResult(TRUE, updatedConstraints, evaluated, << >>)]

\* updateConstraints with the modification recorded before the validation
updateConstraintsRecordFirst(sessionMap, history, sessionId, updates) ==
    IF sessionId \notin DOMAIN sessionMap
    THEN [sessions |-> sessionMap, modificationHistory |-> history,
          result |-> ConstraintUpdateResult(FALSE, << >>, Null,
                        <<ValidationError(<<"sessionId">>, "SESSION_NOT_FOUND")>>)]
    ELSE IF validateConstraintUpdates(sessionMap[sessionId].constraints, updates) # << >>
    THEN [sessions |-> sessionMap,
          modificationHistory |->
              recordModification(history, sessionId,
                                 sessionMap[sessionId].constraints, updates),
          result |-> ConstraintUpdateResult(FALSE, sessionMap[sessionId].constraints, Null,
                        validateConstraintUpdates(sessionMap[sessionId].constraints,
                                                  updates))]
    ELSE ApplyUpdates(sessionMap, history, sessionId, updates,
                      mergeConstraints(sessionMap[sessionId].constraints, updates),
                      Reevaluate(sessionMap[sessionId],
                                 mergeConstraints(sessionMap[sessionId].constraints,
                                                  updates)))

\* updateConstraints with the re-evaluation under the constraints stored before
\* the update
updateConstraintsStaleEvaluation(sessionMap, history, sessionId, updates) ==
    IF sessionId \notin DOMAIN sessionMap
    THEN [sessions |-> sessionMap, modificationHistory |-> history,
          result |-> ConstraintUpdateResult(FALSE, << >>, Null,
                        <<ValidationError(<<"sessionId">>, "SESSION_NOT_FOUND")>>)]
    ELSE IF validateConstraintUpdates(sessionMap[sessionId].constraints, updates) # << >>
    THEN [sessions |-> sessionMap, modificationHistory |-> history,
          result |-> ConstraintUpdateResult(FALSE, sessionMap[sessionId].constraints, Null,
                        validateConstraintUpdates(sessionMap[sessionId].constraints,
                                                  updates))]
    ELSE ApplyUpdates(sessionMap, history, sessionId, updates,
                      mergeConstraints(sessionMap[sessionId].constraints, updates),
                      Reevaluate(sessionMap[sessionId],
                                 sessionMap[sessionId].constraints))

\* The sessions and the modification history after the call, and the result it
\* resolves to
updateConstraints(sessionMap, history, sessionId, updates) ==
    IF sessionId \notin DOMAIN sessionMap
    THEN [sessions |-> sessionMap, modificationHistory |-> history,
          result |-> ConstraintUpdateResult(FALSE, << >>, Null,
                        <<ValidationError(<<"sessionId">>, "SESSION_NOT_FOUND")>>)]
    ELSE IF validateConstraintUpdates(sessionMap[sessionId].constraints, updates) # << >>
    THEN [sessions |-> sessionMap, modificationHistory |-> history,
          result |-> ConstraintUpdateResult(FALSE, sessionMap[sessionId].constraints, Null,
                        validateConstraintUpdates(sessionMap[sessionId].constraints,
                                                  updates))]
    ELSE ApplyUpdates(sessionMap, history, sessionId, updates,
                      mergeConstraints(sessionMap[sessionId].constraints, updates),
                      Reevaluate(sessionMap[sessionId],
                                 mergeConstraints(sessionMap[sessionId].constraints,
                                                  updates)))

updatePriorities(sessionMap, history, sessionId, newPriorities) ==
    updateConstraints(sessionMap, history, sessionId, [priorities |-> newPriorities])

getModificationHistory(history, sessionId) == HistoryOf(history, sessionId)

-----------------------------------------------------------------------------
(* The update manager, called on one session *)

SessionId == <<"s","e","s","s","i","o","n","-","1">>
UnknownSessionId == <<"n","o","n","-","e","x","i","s","t","e","n","t">>
SessionIds == {SessionId, UnknownSessionId}

\* A UserSession without its id and createdAt
UserSession(input, selectedOptions) ==
    [constraints |-> input, selectedOptions |-> selectedOptions,
     evaluationHistory |-> << >>]

\* No option, one option, two and three valid options, and two lists the
\* engine refuses: four options, and the same option twice
SessionOptionLists ==
    {<< >>, <<AWS>>, <<AWS, DigitalOcean>>, <<DigitalOcean, Nimbus, Django>>,
     <<AWS, DigitalOcean, Nimbus, Django>>, <<AWS, AWS>>}

Sessions == {UserSession(NeutralConstraints, l) : l \in SessionOptionLists}

Exp_Blank == <<" ">>

\* Updates the validation accepts on every session of Sessions
ValidUpdates ==
    {[budget |-> "high"],
     [scale |-> [users |-> 10000, traffic |-> "high"]],
     [scale |-> [users |-> 200000]],
     [team |-> [skillLevel |-> "senior"]],
     [timeline |-> "long", priorities |-> [cost |-> 5, vendorLockIn |-> 1]]}

\* Updates the validation refuses
InvalidUpdates ==
    {[budget |-> "huge"],
     [scale |-> [users |-> -1]],
     [team |-> [experience |-> <<Name_AWS, Exp_Blank>>]],
     [priorities |-> [cost |-> 6]],
     [budget |-> "low", priorities |-> [performance |-> 0]]}

ConstraintUpdates == ValidUpdates \cup InvalidUpdates

\* The full priorities of the update tests: accepted, and with cost out of range
NewPriorities == {Priorities(5, 4, 3, 4, 2), Priorities(10, 4, 3, 4, 2)}

\* At most MaxUpdates modifications are recorded for a session
MaxUpdates == 2

InitUpdates ==
    /\ options = << >>
    /\ constraints = NeutralConstraints
    /\ result = NoResult
    /\ output = NoOutput
    /\ call = NoCall
    /\ ret = NoReturn
    /\ Constructed

\* setSession(sessionId, session), for the first session
SetSession(session) ==
    /\ sessions = << >>
    /\ sessions' = [id \in {SessionId} |-> session]
    /\ UNCHANGED <<options, constraints, result, output, call, ret>>
    /\ UNCHANGED <<modificationHistory, partialConstraints, currentStep>>

\* await updateConstraints(sessionId, updates)
UpdateConstraints(sessionId, updates) ==
    /\ Len(HistoryOf(modificationHistory, sessionId)) < MaxUpdates
    /\ \E returned \in {updateConstraints(sessions, modificationHistory,
                                          sessionId, updates)} :
          /\ sessions' = returned.sessions
          /\ modificationHistory' = returned.modificationHistory
          /\ ret' = returned.result
    /\ UNCHANGED <<options, constraints, result, output, call>>
    /\ UNCHANGED <<partialConstraints, currentStep>>

\* await updatePriorities(sessionId, newPriorities)
UpdatePriorities(sessionId, newPriorities) ==
    /\ Len(HistoryOf(modificationHistory, sessionId)) < MaxUpdates
    /\ \E returned \in {updatePriorities(sessions, modificationHistory,
                                         sessionId, newPriorities)} :
          /\ sessions' = returned.sessions
          /\ modificationHistory' = returned.modificationHistory
          /\ ret' = returned.result
    /\ UNCHANGED <<options, constraints, result, output, call>>
    /\ UNCHANGED <<partialConstraints, currentStep>>

NextUpdates ==
    \/ \E session \in Sessions : SetSession(session)
    \/ \E sessionId \in SessionIds, updates \in ConstraintUpdates :
          UpdateConstraints(sessionId, updates)
    \/ \E sessionId \in SessionIds, newPriorities \in NewPriorities :
          UpdatePriorities(sessionId, newPriorities)

SpecUpdates == InitUpdates /\ [][NextUpdates]_vars

-----------------------------------------------------------------------------
(* Claims about the update manager *)

\* The last call returned a ConstraintUpdateResult
Returned == "success" \in DOMAIN ret

\* Neither the stored sessions (constraints, evaluation history) nor the
\* modification history change in the step
C21_NothingStored ==
    /\ sessions' = sessions
    /\ modificationHistory' = modificationHistory
    /\ ret'.success = FALSE
    /\ ret'.evaluationResult = Null

\* C21: updateConstraints for a session id that is not stored returns
\* success = false with exactly one error, SESSION_NOT_FOUND; for updates whose
\* merge with the stored constraints fails validation it returns success = false
\* with the validation errors; in both cases the stored constraints, the
\* evaluation history and the modification history stay as they were and no
\* evaluation result is returned.
C21_RejectedUpdatesChangeNothing ==
    [][/\ \A sessionId \in SessionIds, updates \in ConstraintUpdates :
             (sessionId \notin DOMAIN sessions /\ UpdateConstraints(sessionId, updates))
             => /\ C21_NothingStored
                /\ Len(ret'.errors) = 1
                /\ ret'.errors[1].code = "SESSION_NOT_FOUND"
       /\ \A updates \in InvalidUpdates :
             (SessionId \in DOMAIN sessions /\ UpdateConstraints(SessionId, updates))
             => /\ C21_NothingStored
                /\ ret'.errors # << >>
                /\ ret'.errors =
                      validateConstraints(
                          mergeConstraints(sessions[SessionId].constraints, updates))]_vars

\* An update with a priority out of range was refused on a session that has
\* one recorded modification and one evaluation
C21_Witness ==
    /\ Returned
    /\ SessionId \in DOMAIN sessions
    /\ Len(HistoryOf(modificationHistory, SessionId)) = 1
    /\ Len(sessions[SessionId].evaluationHistory) = 1
    /\ ret.success = FALSE
    /\ ret.errors = <<ValidationError(<<"priorities", "cost">>, "PRIORITY_OUT_OF_RANGE")>>

\* The step records one more modification of the session, with `updates` as
\* its new values
C22_Recorded(updates) ==
    /\ SessionId \in DOMAIN sessions
    /\ Len(HistoryOf(modificationHistory', SessionId))
          = Len(HistoryOf(modificationHistory, SessionId)) + 1
    /\ modificationHistory'[SessionId][Len(modificationHistory'[SessionId])].newValues
          = updates

\* What C22 says of a step that applies `updates` to the stored session
C22_Reevaluated ==
    LET before == sessions[SessionId]
        after == sessions'[SessionId]
    IN  /\ (/\ Len(before.selectedOptions) \in 2..3
            /\ validateTechnicalOptions(before.selectedOptions) = << >>)
           => /\ ret'.success
              /\ ret'.evaluationResult # Null
              /\ ret'.evaluationResult.status = "ok"
              /\ ret'.evaluationResult
                    = evaluate(before.selectedOptions, ret'.updatedConstraints)
              /\ after.constraints = ret'.updatedConstraints
              /\ after.evaluationHistory
                    = Append(before.evaluationHistory, ret'.evaluationResult)
        /\ Len(before.selectedOptions) < 2
           => /\ ret'.success
              /\ ret'.evaluationResult = Null
              /\ after.evaluationHistory = before.evaluationHistory

\* C22: an accepted update on a session with two or three valid selected
\* options returns a non-null evaluationResult that equals the evaluation of the
\* selected options under the merged constraints, and appends exactly that one
\* result to the evaluation history; with fewer than two selected options the
\* update still succeeds, no evaluation runs and evaluationResult is null.
C22_AcceptedUpdateReevaluates ==
    [][/\ \A updates \in ValidUpdates :
             (C22_Recorded(updates) /\ UpdateConstraints(SessionId, updates))
             => C22_Reevaluated
       /\ \A newPriorities \in NewPriorities :
             (/\ C22_Recorded([priorities |-> newPriorities])
              /\ UpdatePriorities(SessionId, newPriorities))
             => C22_Reevaluated]_vars

\* A second accepted update on a session of three options: two evaluations in
\* the history, the last one returned, and it differs from the first
C22_Witness ==
    /\ Returned
    /\ SessionId \in DOMAIN sessions
    /\ Len(sessions[SessionId].selectedOptions) = 3
    /\ ret.success
    /\ Len(sessions[SessionId].evaluationHistory) = 2
    /\ sessions[SessionId].evaluationHistory[2] = ret.evaluationResult
    /\ sessions[SessionId].evaluationHistory[1] # ret.evaluationResult

\* The fields an update gives, as paths
C23_FieldsOf(updates) ==
    {<<key>> : key \in DOMAIN updates \cap SimpleKeys}
    \cup UNION {{<<key, member>> : member \in DOMAIN updates[key]} :
                   key \in DOMAIN updates \cap GroupKeys}

\* The updates of SpecUpdates that pass the validation
C23_Accepted ==
    ValidUpdates
    \cup {[priorities |-> newPriorities] :
             newPriorities \in {p \in NewPriorities : validatePriorities(p) = << >>}}

\* The step appends the record of `updates` to the history of the session
C23_RecordOf(updates) ==
    LET history == getModificationHistory(modificationHistory', SessionId)
        record == history[Len(history)]
        before == sessions[SessionId].constraints
    IN  /\ history
             = Append(getModificationHistory(modificationHistory, SessionId), record)
        /\ record.newValues = updates
        /\ {record.modifiedFields[i] : i \in DOMAIN record.modifiedFields}
              = C23_FieldsOf(updates)
        /\ Len(record.modifiedFields) = Cardinality(C23_FieldsOf(updates))
        /\ DOMAIN record.previousValues = DOMAIN updates
        /\ \A key \in DOMAIN updates :
              IF key \in SimpleKeys
              THEN record.previousValues[key] = before[key]
              ELSE /\ DOMAIN record.previousValues[key] = DOMAIN updates[key]
                   /\ \A member \in DOMAIN updates[key] :
                         record.previousValues[key][member] = before[key][member]

\* The step is a call of updateConstraints or updatePriorities for the stored
\* session that the validation let pass: the call returned success, or the
\* error of a re-evaluation that failed after the update was applied
C23_AcceptedCall ==
    /\ SessionId \in DOMAIN sessions
    /\ "success" \in DOMAIN ret'
    /\ \/ ret'.success
       \/ ret'.errors[1].code = "EVALUATION_FAILED"

\* The values the step has recorded last
C23_Requested ==
    LET history == getModificationHistory(modificationHistory', SessionId)
    IN  history[Len(history)].newValues

C24_OnlyNamedChanged(before, updates, after) ==
    /\ DOMAIN after = DOMAIN before
    /\ \A key \in DOMAIN before :
          IF key \notin DOMAIN updates THEN after[key] = before[key]
          ELSE IF key \in SimpleKeys THEN after[key] = updates[key]
          ELSE /\ DOMAIN after[key] = DOMAIN before[key]
               /\ \A member \in DOMAIN before[key] :
                     after[key][member] =
                        IF member \in DOMAIN updates[key]
                        THEN updates[key][member]
                        ELSE before[key][member]

\* C24: an accepted update changes only what it names: a partial scale, team or
\* priorities update leaves the other members of that group at their previous
\* values, and the groups and simple fields (budget, timeline) not named in the
\* update keep their previous values.
C24_UpdateChangesOnlyWhatItNames ==
    [][\A updates \in C23_Accepted :
          C22_Recorded(updates)
          => /\ C24_OnlyNamedChanged(sessions[SessionId].constraints, updates,
                                     sessions'[SessionId].constraints)
             /\ ret'.updatedConstraints = sessions'[SessionId].constraints]_vars

\* A partial priorities update after a full one: the three priorities it does
\* not name keep the values of the full update, and the scale is untouched
C24_Witness ==
    /\ Len(getModificationHistory(modificationHistory, SessionId)) = 2
    /\ modificationHistory[SessionId][1].newValues
          = [priorities |-> Priorities(5, 4, 3, 4, 2)]
    /\ modificationHistory[SessionId][2].newValues
          = [timeline |-> "long", priorities |-> [cost |-> 5, vendorLockIn |-> 1]]
    /\ sessions[SessionId].constraints.priorities = Priorities(5, 4, 3, 4, 1)
    /\ sessions[SessionId].constraints.timeline = "long"
    /\ sessions[SessionId].constraints.scale = NeutralConstraints.scale

C27_AllOrNothing ==
    [][(/\ DOMAIN sessions' = DOMAIN sessions
        /\ "success" \in DOMAIN ret'
        /\ ret'.success = FALSE)
       => /\ \A sessionId \in DOMAIN sessions :
                sessions'[sessionId].constraints = sessions[sessionId].constraints
          /\ modificationHistory' = modificationHistory]_vars

-----------------------------------------------------------------------------
(* Constraint collection interface *)

Steps == <<"budget", "scale", "team", "timeline", "priorities", "complete">>

\* steps.indexOf(step), from 1
StepIndex(step) == CHOOSE i \in DOMAIN Steps : Steps[i] = step

\* sanitizeInput on a form: the experience entries are the strings of a form
\* that hold arbitrary text; the enumerated words and the numbers of the other
\* members come back as they are
SanitizeForm(form) ==
    [key \in DOMAIN form |->
        IF key = "experience" THEN sanitizeInputArray(form[key]) ELSE form[key]]

\* { a: form.a, b: form.b }: a member the form does not have is undefined
Pick(form, keys) == [key \in DOMAIN form \cap keys |-> form[key]]

\* validation.errors.filter(error => error.field.startsWith(group))
GroupErrors(errors, group) == SelectSeq(errors, LAMBDA error : error.field[1] = group)

\* What a collect call leaves: the partial constraints, the current step and
\* the ValidationResult it returns (without the warnings).  The group is stored
\* and the step set to `next` only when the validation finds no error in it.
Collected(partial, step, group, value, errors, next) ==
    IF errors = << >>
    THEN [partialConstraints |->
              [key \in DOMAIN partial \cup {group} |->
                  IF key = group THEN value ELSE partial[key]],
          currentStep |-> next,
          result |-> [isValid |-> TRUE, errors |-> errors]]
    ELSE [partialConstraints |-> partial, currentStep |-> step,
          result |-> [isValid |-> FALSE, errors |-> errors]]

collectBudget(partial, step, form) ==
    LET sanitizedForm == SanitizeForm(form)
        validation ==
            validateConstraints(
                Constraints(sanitizedForm.budget, 0, "low", "mixed", << >>, "medium",
                            Priorities(3, 3, 3, 3, 3)))
    IN  Collected(partial, step, "budget", sanitizedForm.budget,
                  GroupErrors(validation, "budget"), "scale")

collectScale(partial, step, form) ==
    LET sanitizedForm == SanitizeForm(form)
        scale == Pick(sanitizedForm, {"users", "traffic"})
        validation ==
            validateConstraints(
                [Constraints("medium", 0, "low", "mixed", << >>, "medium",
                             Priorities(3, 3, 3, 3, 3)) EXCEPT !.scale = scale])
    IN  Collected(partial, step, "scale", scale, GroupErrors(validation, "scale"), "team")

collectTeam(partial, step, form) ==
    LET sanitizedForm == SanitizeForm(form)
        team == Pick(sanitizedForm, {"skillLevel", "experience"})
        validation ==
            validateConstraints(
                [Constraints("medium", 1000, "medium", "mixed", << >>, "medium",
                             Priorities(3, 3, 3, 3, 3)) EXCEPT !.team = team])
    IN  Collected(partial, step, "team", team, GroupErrors(validation, "team"),
                  "timeline")

collectTimeline(partial, step, form) ==
    LET sanitizedForm == SanitizeForm(form)
        validation ==
            validateConstraints(
                Constraints("medium", 1000, "medium", "mixed", << >>,
                            sanitizedForm.timeline, Priorities(3, 3, 3, 3, 3)))
    IN  Collected(partial, step, "timeline", sanitizedForm.timeline,
                  GroupErrors(validation, "timeline"), "priorities")

collectPriorities(partial, step, form) ==
    LET sanitizedForm == SanitizeForm(form)
        priorities == Pick(sanitizedForm, PriorityKeySet)
        validation ==
            validateConstraints(
                [Constraints("medium", 1000, "medium", "mixed", << >>, "medium",
                             Priorities(3, 3, 3, 3, 3))
                    EXCEPT !.priorities = priorities])
    IN  Collected(partial, step, "priorities", priorities,
                  GroupErrors(validation, "priorities"), "complete")

ConstraintGroups == {"budget", "scale", "team", "timeline", "priorities"}

\* getCompleteConstraints without the test that every group is present
getCompleteConstraintsUnchecked(partial, step) ==
    IF step # "complete" THEN Null ELSE partial

\* Null unless the step is COMPLETE and every group is stored (a stored group
\* is truthy: a stored budget or timeline is one of the enumerated words)
getCompleteConstraints(partial, step) ==
    IF step # "complete" THEN Null
    ELSE IF \E group \in ConstraintGroups : ~Has(partial, group) THEN Null
    ELSE partial

\* The ValidationResult of validateComplete, without the warnings
validateComplete(partial, step) ==
    IF getCompleteConstraints(partial, step) = Null
    THEN [isValid |-> FALSE,
          errors |-> <<ValidationError(<<"constraints">>, "COLLECTION_INCOMPLETE")>>]
    ELSE [isValid |-> validateConstraints(getCompleteConstraints(partial, step)) = << >>,
          errors |-> validateConstraints(getCompleteConstraints(partial, step))]

\* The current step after goToStep(target) and the boolean it returns: only a
\* step at or before the current one is taken
goToStep(step, target) ==
    IF StepIndex(target) <= StepIndex(step)
    THEN [currentStep |-> target, result |-> TRUE]
    ELSE [currentStep |-> step, result |-> FALSE]

-----------------------------------------------------------------------------
(* The collection interface, called in any order *)

Exp_RAndD == <<"R","&","D">>
Exp_Padded == <<" ","G","o"," ">>
Exp_Tags == <<"<",">">>

\* One character more than sanitizeInput keeps
Exp_Long == [i \in 1..(MaxSanitizedLength + 1) |-> "a"]

\* 'huge' is no budget level
BudgetForms == {[budget |-> budget] : budget \in {"low", "huge"}}

\* A negative user count, and a form without traffic
ScaleForms ==
    {[users |-> 0, traffic |-> "low"], [users |-> 5000, traffic |-> "high"],
     [users |-> -1, traffic |-> "high"], [users |-> 10]}

\* 'expert' is no skill level; the entry '<>' is empty once sanitized
TeamForms ==
    {[skillLevel |-> skillLevel, experience |-> experience] :
        skillLevel \in {"junior", "expert"},
        experience \in {<< >>, <<Name_AWS>>, <<Exp_RAndD, Exp_Padded>>, <<Exp_Tags>>,
                        <<Exp_Long>>}}

TimelineForms == {[timeline |-> timeline] : timeline \in {"immediate", "long", "never"}}

\* A priority of 0, and a form with one priority only
PriorityForms ==
    {Priorities(3, 3, 3, 3, 3), Priorities(5, 1, 5, 1, 1), Priorities(0, 3, 3, 3, 3),
     [cost |-> 5]}

\* `call` follows the calls made since the last startCollection: `forms` holds
\* the forms of the collect calls accepted so far while they came in the order
\* budget, scale, team, timeline, priorities with no other call in between
\* (inOrder), and is empty otherwise
NoRun == [inOrder |-> FALSE, forms |-> << >>]

Follow(position, form, accepted) ==
    IF call.inOrder /\ Len(call.forms) = position - 1 /\ accepted
    THEN [inOrder |-> TRUE, forms |-> Append(call.forms, form)]
    ELSE NoRun

InitCollection ==
    /\ options = << >>
    /\ constraints = NeutralConstraints
    /\ result = NoResult
    /\ output = NoOutput
    /\ call = NoRun
    /\ ret = NoReturn
    /\ Constructed

StartCollection ==
    /\ partialConstraints' = << >>
    /\ currentStep' = "budget"
    /\ call' = [inOrder |-> TRUE, forms |-> << >>]
    /\ ret' = [op |-> "startCollection", result |-> << >>]
    /\ UNCHANGED <<options, constraints, result, output, sessions, modificationHistory>>

\* The state a collect call leaves
Collect(op, position, form, collected) ==
    /\ partialConstraints' = collected.partialConstraints
    /\ currentStep' = collected.currentStep
    /\ ret' = [op |-> op, result |-> collected.result]
    /\ call' = Follow(position, form, collected.result.isValid)
    /\ UNCHANGED <<options, constraints, result, output, sessions, modificationHistory>>

CollectBudget(form) ==
    Collect("collectBudget", 1, form,
            collectBudget(partialConstraints, currentStep, form))

CollectScale(form) ==
    Collect("collectScale", 2, form,
            collectScale(partialConstraints, currentStep, form))

CollectTeam(form) ==
    Collect("collectTeam", 3, form,
            collectTeam(partialConstraints, currentStep, form))

CollectTimeline(form) ==
    Collect("collectTimeline", 4, form,
            collectTimeline(partialConstraints, currentStep, form))

CollectPriorities(form) ==
    Collect("collectPriorities", 5, form,
            collectPriorities(partialConstraints, currentStep, form))

GoToStep(target) ==
    /\ currentStep' = goToStep(currentStep, target).currentStep
    /\ ret' = [op |-> "goToStep", result |-> goToStep(currentStep, target).result]
    /\ call' = NoRun
    /\ UNCHANGED partialConstraints
    /\ UNCHANGED <<options, constraints, result, output, sessions, modificationHistory>>

NextCollection ==
    \/ StartCollection
    \/ \E form \in BudgetForms : CollectBudget(form)
    \/ \E form \in ScaleForms : CollectScale(form)
    \/ \E form \in TeamForms : CollectTeam(form)
    \/ \E form \in TimelineForms : CollectTimeline(form)
    \/ \E form \in PriorityForms : CollectPriorities(form)
    \/ \E target \in {Steps[i] : i \in DOMAIN Steps} : GoToStep(target)

SpecCollection == InitCollection /\ [][NextCollection]_vars

-----------------------------------------------------------------------------
(* Claims about the collection interface *)

\* The five forms of a run in order, as constraints
C25_Forms ==
    [budget |-> call.forms[1].budget, scale |-> call.forms[2], team |-> call.forms[3],
     timeline |-> call.forms[4].timeline, priorities |-> call.forms[5]]

\* The step follows the forms accepted in order
C25_StepFollows ==
    call.inOrder => currentStep = Steps[Len(call.forms) + 1]

C25_Stored(entry) ==
    CASE entry = Exp_RAndD -> <<"R","D">>
      [] entry = Exp_Padded -> <<"G","o">>
      [] entry = Exp_Long -> [i \in 1..100 |-> "a"]
      [] OTHER -> entry

C28_CompleteOnlyWhenAllCollected ==
    currentStep = "complete"
    => \A group \in ConstraintGroups : group \in DOMAIN partialConstraints

\* C28, second half: a successful collect call never moves the current step to
\* an earlier step.
C28_CollectNeverMovesBack ==
    [][(/\ "op" \in DOMAIN ret'
        /\ ret'.op \in {"collectBudget", "collectScale", "collectTeam",
                        "collectTimeline", "collectPriorities"}
        /\ ret'.result.isValid)
       => StepIndex(currentStep') >= StepIndex(currentStep)]_vars

CollectOps ==
    {"collectBudget", "collectScale", "collectTeam", "collectTimeline",
     "collectPriorities"}

\* What C29 says of the state in which getCompleteConstraints returns a value
C29_CompleteIsValid ==
    getCompleteConstraints(partialConstraints, currentStep) # Null
    => /\ \A group \in ConstraintGroups : group \in DOMAIN partialConstraints
       /\ validateBudget(partialConstraints.budget) = << >>
       /\ validateScale(partialConstraints.scale) = << >>
       /\ validateTeam(partialConstraints.team) = << >>
       /\ validateTimeline(partialConstraints.timeline) = << >>
       /\ validatePriorities(partialConstraints.priorities) = << >>
       /\ validateComplete(partialConstraints, currentStep).isValid

\* C29: after any sequence of collect, goToStep and startCollection calls,
\* whenever getCompleteConstraints returns a non-null value, all five constraint
\* groups are present, each was accepted by its validation, and validateComplete
\* reports isValid = true; a collect call with invalid input changes neither
\* the current step nor the stored partial constraints.
C29_CompleteConstraintsValid ==
    /\ []C29_CompleteIsValid
    /\ [][(/\ "op" \in DOMAIN ret'
           /\ ret'.op \in CollectOps
           /\ ret'.result.isValid = FALSE)
          => /\ currentStep' = currentStep
             /\ partialConstraints' = partialConstraints]_vars

\* The five groups are stored and the step is COMPLETE after calls that did
\* not come in the order of the steps, the last one collectPriorities
C29_Witness ==
    /\ getCompleteConstraints(partialConstraints, currentStep) # Null
    /\ ~call.inOrder
    /\ "op" \in DOMAIN ret
    /\ ret.op = "collectPriorities"
    /\ partialConstraints.team.experience = <<<<"R","D">>, <<"G","o">>>>

-----------------------------------------------------------------------------
(* Claim about the comparison table *)

\* C30: in the comparison output built from an evaluate result, the rows of
\* the comparison table appear in the same order as the rankings, so the first
\* row is the rank-1 option, which is also the recommended option.
C30_RowsFollowRankings ==
    output.status = "ok"
    => /\ Len(output.comparisonTable) = Len(result.rankings)
       /\ \A i \in DOMAIN output.comparisonTable :
             output.comparisonTable[i].option = result.rankings[i].option
       /\ output.comparisonTable[1].option.name = output.recommendedOption

====
